---- MODULE Spec2Model ----
(***************************************************************************)
(* Session state machine of the Savestate extension (class SessionManager  *)
(* of src/session-manager.js, and the service worker that follows it in    *)
(* the same file) over the host's key-value store.                         *)
(*                                                                         *)
(* Scheduling model.  Every method is an async function.  The code between *)
(* two awaits runs without interruption; each `await` of a host call       *)
(* (chrome.storage.local.get / set, chrome.tabs.query) is one step of the  *)
(* model: the host call takes effect and the method runs on to its next    *)
(* await.  Steps of different calls interleave freely.  The store hands    *)
(* out copies: a method works on its own snapshot until it writes it back. *)
(* Awaiting an async function that returns without suspending, and the     *)
(* continuations of a settled promise, run in the same step (microtasks).  *)
(***************************************************************************)
EXTENDS Integers, Sequences, FiniteSets, TLC

VARIABLES
    store,                  \* the persisted record {sessions, currentSessionId}
    currentSessionId,       \* this.currentSessionId (in memory)
    sessionCreationPromise, \* this.sessionCreationPromise: "null" or "pending"
    sessionCounter,         \* this.sessionCounter
    now,                    \* Date.now()
    hostTabs,               \* what chrome.tabs.query({}) reports
    calls,                  \* the method calls in flight, by slot
    opsStarted,             \* number of calls made so far
    observe,                \* whether the history of the calls is kept
    prev,                   \* the call that returned last (history)
    saveTimeouts            \* the service worker's saveTimeouts: tab id -> timer

vars == <<store, currentSessionId, sessionCreationPromise, sessionCounter, now,
          hostTabs, calls, opsStarted, observe, prev, saveTimeouts>>

----------------------------------------------------------------------------
(* Bounds of the model *)

MaxCalls == 2
MaxOps == 3
MaxClock == 2
MAX_SESSIONS == 2
MAX_CLOSED_TABS == 2

----------------------------------------------------------------------------
(* Values *)

\* null, as a session id
Null == <<>>
\* a session id that createNewSession never mints
DanglingId == <<0, 0>>
\* undefined, as a string / as a url / as a number
UndefinedStr == "undefined"
UndefinedUrl == <<"undefined", "">>
UndefinedNum == 0 - 1

\* A url is the pair <<prefix, remainder>>; url.startsWith(p) compares the prefix.
Url(prefix, rest) == <<prefix, rest>>
EmptyUrl == <<"", "">>
StartsWith(url, prefix) == url[1] = prefix

UrlA == Url("https://", "a.test")
UrlB == Url("https://", "b.test")
UrlNewTab == Url("chrome://", "newtab/")

\* Tab descriptors as the host delivers them.
TabA1 == [id |-> 1, windowId |-> 1, url |-> UrlA, title |-> "A",
          favIconUrl |-> "a.ico", incognito |-> TRUE]
TabB2 == [id |-> 2, windowId |-> 1, url |-> UrlB, title |-> "",
          incognito |-> TRUE]
TabB1 == [id |-> 1, windowId |-> 1, url |-> UrlB, title |-> "B",
          favIconUrl |-> "b.ico", incognito |-> TRUE]
TabA2 == [id |-> 2, windowId |-> 2, url |-> UrlA, title |-> "A2",
          incognito |-> TRUE]
TabSys3 == [id |-> 3, windowId |-> 1, url |-> UrlNewTab, title |-> "New Tab",
            incognito |-> TRUE]
TabReg4 == [id |-> 4, windowId |-> 3, url |-> UrlA, title |-> "A",
            incognito |-> FALSE]

\* tab.f, undefined when the object has no such property
Prop(obj, f, undef) == IF f \in DOMAIN obj THEN obj[f] ELSE undef
\* JavaScript falsiness of a string
Falsy(s) == s = "" \/ s = UndefinedStr

\* Array.prototype.findIndex, 1-based; 0 stands for JavaScript's -1
FindIndex(seq, Test(_)) ==
    IF \E i \in 1..Len(seq) : Test(seq[i])
    THEN CHOOSE i \in 1..Len(seq) :
            Test(seq[i]) /\ \A j \in 1..(i - 1) : ~Test(seq[j])
    ELSE 0

\* Array.prototype.filter
Filter(seq, Test(_)) == SelectSeq(seq, Test)

\* Array.prototype.slice(0, n)
Slice0(seq, n) == SubSeq(seq, 1, IF Len(seq) < n THEN Len(seq) ELSE n)

\* storage.sessions.find(s => s.id === id): its index, 0 when there is none
FindSession(storage, id) == FindIndex(storage.sessions, LAMBDA s : s.id = id)

\* getStorage's default for an absent record
EmptyStorage == [sessions |-> <<>>, currentSessionId |-> Null]

\* getStorage returns the stored record as it is: only an absent record is
\* replaced by the default.  A record without a sessions list makes every
\* `storage.sessions.` of the methods throw a TypeError.
HasSessions(storage) == "sessions" \in DOMAIN storage

----------------------------------------------------------------------------
(* The methods' computations, between their awaits *)

isSystemUrl(url) ==
    \/ url = UndefinedUrl \/ url = EmptyUrl
    \/ url = Url("chrome://", "newtab/")
    \/ url = Url("about:", "blank")
    \/ url = Url("about:", "newtab")
    \/ StartsWith(url, "chrome://")
    \/ StartsWith(url, "about:")
    \/ StartsWith(url, "chrome-extension://")
    \/ StartsWith(url, "edge://")
    \/ StartsWith(url, "brave://")
    \/ StartsWith(url, "moz-extension://")
    \/ StartsWith(url, "opera://")
    \/ StartsWith(url, "vivaldi://")
    \/ StartsWith(url, "javascript:")
    \/ StartsWith(url, "data:")
    \/ StartsWith(url, "blob:")

\* A session name is a sequence of text pieces; the empty string has none.
formatSessionName(timestamp) == <<>>

\* the TabEntry built from a tab descriptor at time t
TabEntry(tab, t) ==
    [id |-> <<t, tab.id>>,
     tabId |-> tab.id,
     windowId |-> tab.windowId,
     url |-> Prop(tab, "url", UndefinedUrl),
     title |-> IF Falsy(Prop(tab, "title", UndefinedStr)) THEN "Loading..."
               ELSE tab.title,
     timestamp |-> t,
     favicon |-> IF Falsy(Prop(tab, "favIconUrl", UndefinedStr)) THEN ""
                 ELSE tab.favIconUrl,
     closedAt |-> UndefinedNum]

\* (mutant) seeding from the tabs of every context, private or not
ValidTabsAnyContext(allTabs) ==
    Filter(allTabs, LAMBDA tab : ~isSystemUrl(tab.url))

\* createNewSession: the tabs that seed the session
ValidTabs(allTabs) ==
    Filter(Filter(allTabs, LAMBDA tab : tab.incognito),
           LAMBDA tab : ~isSystemUrl(tab.url))

RECURSIVE MapTabEntry(_, _)
MapTabEntry(tabs, t) ==
    IF tabs = <<>> THEN <<>>
    ELSE <<TabEntry(Head(tabs), t)>> \o MapTabEntry(Tail(tabs), t)

\* (mutant) createNewSession that pushes the new session at the end of the
\* list before truncating it
CreateNewSessionStoragePush(storage, sessionId, timestamp, allTabs, t) ==
    LET newSession == [id |-> sessionId,
                       name |-> formatSessionName(timestamp),
                       created |-> timestamp,
                       modified |-> timestamp,
                       status |-> UndefinedStr,
                       closedAt |-> UndefinedNum,
                       tabs |-> MapTabEntry(ValidTabs(allTabs), t),
                       closedTabs |-> <<>>]
        pushed == storage.sessions \o <<newSession>>
    IN  [sessions |-> IF Len(pushed) > MAX_SESSIONS
                      THEN Slice0(pushed, MAX_SESSIONS)
                      ELSE pushed,
         currentSessionId |-> sessionId]

\* createNewSession: the record it writes
CreateNewSessionStorage(storage, sessionId, timestamp, allTabs, t) ==
    LET newSession == [id |-> sessionId,
                       name |-> formatSessionName(timestamp),
                       created |-> timestamp,
                       modified |-> timestamp,
                       status |-> UndefinedStr,
                       closedAt |-> UndefinedNum,
                       tabs |-> MapTabEntry(ValidTabs(allTabs), t),
                       closedTabs |-> <<>>]
        unshifted == <<newSession>> \o storage.sessions
    IN  [sessions |-> IF Len(unshifted) > MAX_SESSIONS
                      THEN Slice0(unshifted, MAX_SESSIONS)
                      ELSE unshifted,
         currentSessionId |-> sessionId]

\* (mutant) addTabToSession without duplicate detection
AddTabToTabsAppend(tabs, tabEntry) == Append(tabs, tabEntry)

\* (mutant) addTabToSession that detects duplicates by tabId only
AddTabToTabsByIdOnly(tabs, tabEntry) ==
    LET existingByTabId == FindIndex(tabs, LAMBDA e : e.tabId = tabEntry.tabId)
    IN  IF existingByTabId > 0 THEN [tabs EXCEPT ![existingByTabId] = tabEntry]
        ELSE Append(tabs, tabEntry)

\* (mutant) addTabToSession that detects duplicates by url only
AddTabToTabsByUrlOnly(tabs, tabEntry) ==
    LET existingByUrl == FindIndex(tabs, LAMBDA e : e.url = tabEntry.url)
    IN  IF existingByUrl > 0 THEN [tabs EXCEPT ![existingByUrl] = tabEntry]
        ELSE Append(tabs, tabEntry)

\* addTabToSession: the session's tabs with the entry folded in
AddTabToTabs(tabs, tabEntry) ==
    LET existingByTabId == FindIndex(tabs, LAMBDA e : e.tabId = tabEntry.tabId)
        existingByUrl == FindIndex(tabs, LAMBDA e : e.url = tabEntry.url)
    IN  IF existingByTabId > 0 THEN [tabs EXCEPT ![existingByTabId] = tabEntry]
        ELSE IF existingByUrl > 0 THEN [tabs EXCEPT ![existingByUrl] = tabEntry]
        ELSE Append(tabs, tabEntry)

\* (mutant) a lookup whose test assigns (t.tabId = tabId) instead of
\* comparing: the first entry always matches
TabIndexOfFirst(tabs, tabId) == FindIndex(tabs, LAMBDA e : tabId # 0)

\* session.tabs.findIndex(t => t.tabId === tabId)
TabIndexOf(tabs, tabId) == FindIndex(tabs, LAMBDA e : e.tabId = tabId)

\* updateTabInSession: the merged entry
UpdateTabEntry(old, tab, t) ==
    [old EXCEPT
        !.url = Prop(tab, "url", UndefinedUrl),
        !.title = IF Prop(tab, "title", UndefinedStr) # UndefinedStr
                  THEN tab.title ELSE old.title,
        !.favicon = IF Prop(tab, "favIconUrl", UndefinedStr) # UndefinedStr
                    THEN tab.favIconUrl ELSE old.favicon,
        !.timestamp = t]

\* (mutant) moveTabToClosedTabs that archives the entry and leaves it in tabs
MoveTabInSessionKeepsTab(session, tabIndex, tabId, t) ==
    LET tab == [session.tabs[tabIndex] EXCEPT !.closedAt = t]
        unshifted == <<tab>> \o session.closedTabs
    IN  [session EXCEPT
            !.closedTabs = IF Len(unshifted) > MAX_CLOSED_TABS
                           THEN Slice0(unshifted, MAX_CLOSED_TABS)
                           ELSE unshifted,
            !.modified = t]

\* (mutant) moveTabToClosedTabs that pushes the entry at the end of closedTabs
MoveTabInSessionPush(session, tabIndex, tabId, t) ==
    LET tab == [session.tabs[tabIndex] EXCEPT !.closedAt = t]
        pushed == session.closedTabs \o <<tab>>
    IN  [session EXCEPT
            !.closedTabs = IF Len(pushed) > MAX_CLOSED_TABS
                           THEN Slice0(pushed, MAX_CLOSED_TABS)
                           ELSE pushed,
            !.tabs = Filter(session.tabs, LAMBDA e : e.tabId # tabId),
            !.modified = t]

\* (mutant) moveTabToClosedTabs that rebuilds the archived entry from its
\* ids and drops the rest
MoveTabInSessionBareEntry(session, tabIndex, tabId, t) ==
    LET tab == [session.tabs[tabIndex] EXCEPT !.closedAt = t, !.title = "",
                                              !.favicon = ""]
        unshifted == <<tab>> \o session.closedTabs
    IN  [session EXCEPT
            !.closedTabs = IF Len(unshifted) > MAX_CLOSED_TABS
                           THEN Slice0(unshifted, MAX_CLOSED_TABS)
                           ELSE unshifted,
            !.tabs = Filter(session.tabs, LAMBDA e : e.tabId # tabId),
            !.modified = t]

\* moveTabToClosedTabs: the session with the entry at tabIndex archived
MoveTabInSession(session, tabIndex, tabId, t) ==
    LET tab == [session.tabs[tabIndex] EXCEPT !.closedAt = t]
        unshifted == <<tab>> \o session.closedTabs
    IN  [session EXCEPT
            !.closedTabs = IF Len(unshifted) > MAX_CLOSED_TABS
                           THEN Slice0(unshifted, MAX_CLOSED_TABS)
                           ELSE unshifted,
            !.tabs = Filter(session.tabs, LAMBDA e : e.tabId # tabId),
            !.modified = t]

\* the record with session number idx replaced
WithSession(storage, idx, session) ==
    [storage EXCEPT !.sessions = [storage.sessions EXCEPT ![idx] = session]]

\* (mutant) closeSession that leaves the persisted pointer alone
CloseSessionStorageKeepsPointer(storage, idx, sessionId, mem, t) ==
    WithSession(storage, idx,
        [storage.sessions[idx] EXCEPT !.status = "closed", !.modified = t])

\* closeSession: the record it writes (mem: this.currentSessionId)
CloseSessionStorage(storage, idx, sessionId, mem, t) ==
    LET closed == WithSession(storage, idx,
                      [storage.sessions[idx] EXCEPT !.status = "closed",
                                                    !.modified = t])
    IN  IF mem = sessionId THEN [closed EXCEPT !.currentSessionId = Null]
        ELSE closed

\* checkAndCloseSessionIfAllTabsClosed: the record it writes
CloseCurrentSessionStorage(storage, idx, t) ==
    [WithSession(storage, idx,
         [storage.sessions[idx] EXCEPT !.status = "closed", !.modified = t])
     EXCEPT !.currentSessionId = Null]

\* manualSaveSession: the record it writes
ManualSaveStorage(storage, idx, t) ==
    [WithSession(storage, idx,
         [storage.sessions[idx] EXCEPT !.status = "saved", !.modified = t])
     EXCEPT !.currentSessionId = Null]

\* (mutant) deleteSession that leaves the persisted pointer alone
DeleteSessionStorageKeepsPointer(storage, sessionId) ==
    [sessions |-> Filter(storage.sessions, LAMBDA s : s.id # sessionId),
     currentSessionId |-> storage.currentSessionId]

\* deleteSession: the record it writes
DeleteSessionStorage(storage, sessionId) ==
    [sessions |-> Filter(storage.sessions, LAMBDA s : s.id # sessionId),
     currentSessionId |-> IF storage.currentSessionId = sessionId THEN Null
                          ELSE storage.currentSessionId]

\* (mutant) switchToSession that stamps created along with modified
SwitchSessionStorageRestamps(storage, idx, sessionId, t) ==
    [WithSession(storage, idx,
         [storage.sessions[idx] EXCEPT !.modified = t, !.created = t])
     EXCEPT !.currentSessionId = sessionId]

\* switchToSession: the record it writes
SwitchSessionStorage(storage, idx, sessionId, t) ==
    [WithSession(storage, idx, [storage.sessions[idx] EXCEPT !.modified = t])
     EXCEPT !.currentSessionId = sessionId]

\* the piece ' (Closed)' of a session name
ClosedSuffix == " (Closed)"
EndsWithClosed(name) == name # <<>> /\ name[Len(name)] = ClosedSuffix
\* name.replace(' (Closed)', ''): the first occurrence goes
ReplaceFirstClosed(name) ==
    LET i == FindIndex(name, LAMBDA piece : piece = ClosedSuffix)
    IN  IF i = 0 THEN name
        ELSE SubSeq(name, 1, i - 1) \o SubSeq(name, i + 1, Len(name))

\* (mutant) restoreSession that clears the stored tabs for the caller to
\* repopulate
RestoreSessionStorageClearsTabs(storage, idx, sessionId, t) ==
    [WithSession(storage, idx,
         [storage.sessions[idx] EXCEPT !.modified = t, !.tabs = <<>>])
     EXCEPT !.currentSessionId = sessionId]

\* (mutant) restoreSession that reopens the session: the status goes
RestoreSessionStorageReopens(storage, idx, sessionId, t) ==
    LET session == storage.sessions[idx]
    IN  [WithSession(storage, idx,
             [session EXCEPT
                 !.modified = t,
                 !.status = UndefinedStr,
                 !.name = IF EndsWithClosed(session.name)
                          THEN ReplaceFirstClosed(session.name)
                          ELSE session.name])
         EXCEPT !.currentSessionId = sessionId]

\* restoreSession: the record it writes
RestoreSessionStorage(storage, idx, sessionId, t) ==
    LET session == storage.sessions[idx]
    IN  [WithSession(storage, idx,
             [session EXCEPT
                 !.modified = t,
                 !.name = IF EndsWithClosed(session.name)
                          THEN ReplaceFirstClosed(session.name)
                          ELSE session.name])
         EXCEPT !.currentSessionId = sessionId]

\* cleanupEmptySessions: the record it writes (the sessions without tabs go,
\* the pointers stay)
CleanupEmptySessionsStorage(storage) ==
    [storage EXCEPT !.sessions = Filter(storage.sessions,
                                        LAMBDA session : session.tabs # <<>>)]

----------------------------------------------------------------------------
(* Calls *)

\* Slot 0 runs the createNewSession behind sessionCreationPromise.
CreationTask == 0
Slots == 1..MaxCalls

\* the ids of the tabs of the model
TabIds == {1, 2, 3, 4}
\* saveTimeouts = new Map(): no tab id has a timer (0: no slot)
NoTimeouts == [tabId \in TabIds |-> 0]

NoTab == [id |-> 0]
\* the values true and false a method returns
JsTrue == <<"true">>
JsFalse == <<"false">>
NoCall == [op |-> "none", sessionId |-> Null, tabId |-> 0, tab |-> NoTab,
           error |-> "", wrote |-> FALSE, mem |-> Null]

IdleCall ==
    [op |-> "none", pc |-> "idle", sessionId |-> Null, tabId |-> 0,
     tab |-> NoTab, storage |-> EmptyStorage, newId |-> Null, timestamp |-> 0,
     ret |-> Null, retTabs |-> <<>>, error |-> "", wrote |-> FALSE,
     pre |-> EmptyStorage, preMem |-> Null, after |-> NoCall]

Summary(c) ==
    [op |-> c.op, sessionId |-> c.sessionId, tabId |-> c.tabId, tab |-> c.tab,
     error |-> c.error, wrote |-> c.wrote, mem |-> c.preMem]

\* the call returns (or throws): its locals are gone
Return(c, ret, error) ==
    IF observe
    THEN [c EXCEPT !.pc = "done", !.ret = ret, !.error = error,
                   !.storage = EmptyStorage, !.newId = Null, !.timestamp = 0]
    ELSE IdleCall

Quiet(c) == c.pc \in {"idle", "done"}

\* calls' and prev' once the calls in `changed` have taken their step
Commit(changed) ==
    /\ calls' = [q \in DOMAIN calls |->
                    IF q \in DOMAIN changed THEN changed[q] ELSE calls[q]]
    /\ prev' = IF /\ observe
                  /\ \E q \in DOMAIN changed : q # CreationTask /\ changed[q].pc = "done"
               THEN Summary(changed[CHOOSE q \in DOMAIN changed :
                                       q # CreationTask /\ changed[q].pc = "done"])
               ELSE prev

One(p, c) == [q \in {p} |-> c]

----------------------------------------------------------------------------
(* A method is called: it runs to its first await *)

Call(p, op, first, sessionId, tabId, tab) ==
    /\ opsStarted < MaxOps
    /\ Quiet(calls[p])
    /\ opsStarted' = opsStarted + 1
    /\ LET c == [IdleCall EXCEPT !.op = op, !.pc = first,
                                 !.sessionId = sessionId, !.tabId = tabId,
                                 !.tab = tab,
                                 !.pre = IF observe THEN store ELSE EmptyStorage,
                                 !.preMem = IF observe THEN currentSessionId
                                            ELSE Null,
                                 !.after = prev]
       IN  Commit(One(p, IF first = "done" THEN Return(c, Null, "") ELSE c))
    /\ UNCHANGED <<store, currentSessionId, sessionCreationPromise,
                   sessionCounter, now, hostTabs, observe, saveTimeouts>>

ensureActiveSession(p) ==
    Call(p, "ensureActiveSession", "eas_get", Null, 0, NoTab)

createNewSession(p) ==
    Call(p, "createNewSession", "cns_get", Null, 0, NoTab)

addTabToSession(p, tab) ==
    Call(p, "addTabToSession",
         IF currentSessionId = Null THEN "eas_get" ELSE "add_get", Null, 0, tab)

updateTabInSession(p, tabId, tab) ==
    Call(p, "updateTabInSession", "upd_get", Null, tabId, tab)

moveTabToClosedTabs(p, tabId) ==
    Call(p, "moveTabToClosedTabs", "mov_get", Null, tabId, NoTab)

closeSession(p, sessionId) ==
    Call(p, "closeSession", "cls_get", sessionId, 0, NoTab)

manualSaveSession(p) ==
    Call(p, "manualSaveSession",
         IF currentSessionId # Null THEN "sav_get" ELSE "done", Null, 0, NoTab)

deleteSession(p, sessionId) ==
    Call(p, "deleteSession", "del_get", sessionId, 0, NoTab)

switchToSession(p, sessionId) ==
    Call(p, "switchToSession", "swi_get", sessionId, 0, NoTab)

restoreSession(p, sessionId) ==
    Call(p, "restoreSession", "res_get", sessionId, 0, NoTab)

getSessionForRestoration(p, sessionId) ==
    Call(p, "getSessionForRestoration", "gfr_get", sessionId, 0, NoTab)

restoreSessionState(p) ==
    Call(p, "restoreSessionState", "rss_get", Null, 0, NoTab)

initialize(p) ==
    Call(p, "initialize", "ini_get", Null, 0, NoTab)

checkAndCloseSessionIfAllTabsClosed(p) ==
    Call(p, "checkAndCloseSessionIfAllTabsClosed", "chk_query", Null, 0, NoTab)

----------------------------------------------------------------------------
(* A call resumes from an await and runs to its next one *)

\* (mutant) ensureActiveSession whose callers each run their own
\* createNewSession instead of sharing sessionCreationPromise
EnsureAfterGetUnshared(p) ==
    LET c == calls[p]
        active == currentSessionId # Null /\ FindSession(store, currentSessionId) > 0
    IN  /\ c.pc = "eas_get"
        /\ Commit(One(p, IF active THEN Return(c, currentSessionId, "")
                         ELSE [c EXCEPT !.pc = "cns_get"]))
        /\ UNCHANGED <<store, currentSessionId, sessionCreationPromise,
                       sessionCounter, now, hostTabs, opsStarted, observe,
                       saveTimeouts>>

\* ensureActiveSession, resumed with the record getStorage read
EnsureAfterGet(p) ==
    LET c == calls[p]
        active == currentSessionId # Null /\ FindSession(store, currentSessionId) > 0
        task == [IdleCall EXCEPT !.op = "createNewSession", !.pc = "cns_get"]
    IN  /\ c.pc = "eas_get"
        /\ currentSessionId # Null => HasSessions(store)
        /\ IF active
           THEN /\ Commit(One(p, IF c.op = "addTabToSession"
                                 THEN [c EXCEPT !.pc = "add_get"]
                                 ELSE Return(c, currentSessionId, "")))
                /\ UNCHANGED sessionCreationPromise
           ELSE IF sessionCreationPromise = "null"
           THEN /\ sessionCreationPromise' = "pending"
                /\ Commit([q \in {p, CreationTask} |->
                             IF q = p THEN [c EXCEPT !.pc = "eas_await"] ELSE task])
           ELSE /\ Commit(One(p, [c EXCEPT !.pc = "eas_await"]))
                /\ UNCHANGED sessionCreationPromise
        /\ UNCHANGED <<store, currentSessionId, sessionCounter, now, hostTabs,
                       opsStarted, observe, saveTimeouts>>

\* (mutant) createNewSession that mints the id from the clock alone
CreateAfterGetClockOnly(p) ==
    LET c == calls[p]
    IN  /\ c.pc = "cns_get"
        /\ sessionCounter' = sessionCounter + 1
        /\ Commit(One(p, [c EXCEPT !.pc = "cns_query",
                                   !.storage = store,
                                   !.newId = <<now, 0>>,
                                   !.timestamp = now]))
        /\ UNCHANGED <<store, currentSessionId, sessionCreationPromise, now,
                       hostTabs, opsStarted, observe, saveTimeouts>>

\* createNewSession, resumed with the record getStorage read
CreateAfterGet(p) ==
    LET c == calls[p]
    IN  /\ c.pc = "cns_get"
        /\ sessionCounter' = sessionCounter + 1
        /\ Commit(One(p, [c EXCEPT !.pc = "cns_query",
                                   !.storage = store,
                                   !.newId = <<now, sessionCounter + 1>>,
                                   !.timestamp = now]))
        /\ UNCHANGED <<store, currentSessionId, sessionCreationPromise, now,
                       hostTabs, opsStarted, observe, saveTimeouts>>

\* createNewSession, resumed with the tabs chrome.tabs.query reported
CreateAfterQuery(p) ==
    LET c == calls[p]
    IN  /\ c.pc = "cns_query"
        /\ HasSessions(c.storage)
        /\ currentSessionId' = c.newId
        /\ Commit(One(p, [c EXCEPT
                            !.pc = "cns_set",
                            !.storage = CreateNewSessionStorage(
                                c.storage, c.newId, c.timestamp, hostTabs, now)]))
        /\ UNCHANGED <<store, sessionCreationPromise, sessionCounter, now,
                       hostTabs, opsStarted, observe, saveTimeouts>>

\* The callers of ensureActiveSession that await sessionCreationPromise
\* resume with the new id when the creation behind it has returned.
Awaiters == {q \in Slots : calls[q].pc = "eas_await"}

Resumed(c, sessionId) ==
    IF c.op = "addTabToSession" THEN [c EXCEPT !.pc = "add_get"]
    ELSE Return(c, sessionId, "")

\* createNewSession, resumed after saveStorage wrote the record
CreateAfterSave(p) ==
    LET c == calls[p]
    IN  /\ c.pc = "cns_set"
        /\ store' = c.storage
        /\ IF p = CreationTask
           THEN /\ sessionCreationPromise' = "null"
                /\ currentSessionId' = IF Awaiters # {} THEN c.newId
                                       ELSE currentSessionId
                /\ Commit([q \in Awaiters \cup {p} |->
                             IF q = p THEN IdleCall
                             ELSE Resumed(calls[q], c.newId)])
           ELSE /\ Commit(One(p, Return([c EXCEPT !.wrote = TRUE], c.newId, "")))
                /\ UNCHANGED <<sessionCreationPromise, currentSessionId>>
        /\ UNCHANGED <<sessionCounter, now, hostTabs, opsStarted, observe,
                       saveTimeouts>>

\* (mutant) addTabToSession that stamps modified on every stored session
AddAfterGetStampsAll(p) ==
    LET c == calls[p]
        idx == FindSession(store, currentSessionId)
        session == store.sessions[idx]
        added == WithSession(store, idx,
                     [session EXCEPT
                         !.tabs = AddTabToTabs(session.tabs, TabEntry(c.tab, now))])
    IN  /\ c.pc = "add_get"
        /\ Commit(One(p,
             IF idx = 0 THEN Return(c, Null, "Current session not found")
             ELSE [c EXCEPT
                     !.pc = "add_set",
                     !.storage.sessions =
                         [i \in DOMAIN added.sessions |->
                             [added.sessions[i] EXCEPT !.modified = now]],
                     !.storage.currentSessionId = added.currentSessionId]))
        /\ UNCHANGED <<store, currentSessionId, sessionCreationPromise,
                       sessionCounter, now, hostTabs, opsStarted, observe,
                       saveTimeouts>>

\* addTabToSession, resumed with the record getStorage read
AddAfterGet(p) ==
    LET c == calls[p]
        idx == FindSession(store, currentSessionId)
        session == store.sessions[idx]
    IN  /\ c.pc = "add_get"
        /\ Commit(One(p,
             IF idx = 0 THEN Return(c, Null, "Current session not found")
             ELSE [c EXCEPT
                     !.pc = "add_set",
                     !.storage = WithSession(store, idx,
                         [session EXCEPT
                             !.tabs = AddTabToTabs(session.tabs, TabEntry(c.tab, now)),
                             !.modified = now])]))
        /\ UNCHANGED <<store, currentSessionId, sessionCreationPromise,
                       sessionCounter, now, hostTabs, opsStarted, observe,
                       saveTimeouts>>

\* updateTabInSession, resumed with the record getStorage read
UpdateAfterGet(p) ==
    LET c == calls[p]
        idx == FindSession(store, currentSessionId)
        session == store.sessions[idx]
        tabIndex == TabIndexOf(session.tabs, c.tabId)
    IN  /\ c.pc = "upd_get"
        /\ Commit(One(p,
             IF idx = 0 THEN Return(c, Null, "Current session not found")
             ELSE IF tabIndex = 0 THEN Return(c, Null, "")
             ELSE [c EXCEPT
                     !.pc = "upd_set",
                     !.storage = WithSession(store, idx,
                         [session EXCEPT
                             !.tabs[tabIndex] =
                                 UpdateTabEntry(session.tabs[tabIndex], c.tab, now),
                             !.modified = now])]))
        /\ UNCHANGED <<store, currentSessionId, sessionCreationPromise,
                       sessionCounter, now, hostTabs, opsStarted, observe,
                       saveTimeouts>>

\* moveTabToClosedTabs, resumed with the record getStorage read
MoveAfterGet(p) ==
    LET c == calls[p]
        idx == FindSession(store, currentSessionId)
        session == store.sessions[idx]
        tabIndex == TabIndexOf(session.tabs, c.tabId)
    IN  /\ c.pc = "mov_get"
        /\ Commit(One(p,
             IF idx = 0 \/ tabIndex = 0 THEN Return(c, Null, "")
             ELSE [c EXCEPT
                     !.pc = "mov_set",
                     !.storage = WithSession(store, idx,
                         MoveTabInSession(session, tabIndex, c.tabId, now))]))
        /\ UNCHANGED <<store, currentSessionId, sessionCreationPromise,
                       sessionCounter, now, hostTabs, opsStarted, observe,
                       saveTimeouts>>

\* closeSession, resumed with the record getStorage read
CloseAfterGet(p) ==
    LET c == calls[p]
        idx == FindSession(store, c.sessionId)
    IN  /\ c.pc = "cls_get"
        /\ IF idx = 0
           THEN /\ Commit(One(p, Return(c, Null, "")))
                /\ UNCHANGED currentSessionId
           ELSE /\ Commit(One(p, [c EXCEPT
                    !.pc = "cls_set",
                    !.storage = CloseSessionStorage(store, idx, c.sessionId,
                                                    currentSessionId, now)]))
                /\ currentSessionId' = IF currentSessionId = c.sessionId THEN Null
                                       ELSE currentSessionId
        /\ UNCHANGED <<store, sessionCreationPromise, sessionCounter, now,
                       hostTabs, opsStarted, observe, saveTimeouts>>

\* (mutant) manualSaveSession that archives the session and leaves
\* this.currentSessionId on it
SaveAfterGetKeepsPointer(p) ==
    LET c == calls[p]
        idx == FindSession(store, currentSessionId)
    IN  /\ c.pc = "sav_get"
        /\ Commit(One(p, IF idx = 0 THEN Return(c, Null, "")
                         ELSE [c EXCEPT
                                 !.pc = "sav_set",
                                 !.storage = ManualSaveStorage(store, idx, now)]))
        /\ UNCHANGED <<store, currentSessionId, sessionCreationPromise,
                       sessionCounter, now, hostTabs, opsStarted, observe,
                       saveTimeouts>>

\* manualSaveSession, resumed with the record getStorage read
SaveAfterGet(p) ==
    LET c == calls[p]
        idx == FindSession(store, currentSessionId)
    IN  /\ c.pc = "sav_get"
        /\ IF idx = 0
           THEN /\ Commit(One(p, Return(c, Null, "")))
                /\ UNCHANGED currentSessionId
           ELSE /\ Commit(One(p, [c EXCEPT
                    !.pc = "sav_set",
                    !.storage = ManualSaveStorage(store, idx, now)]))
                /\ currentSessionId' = Null
        /\ UNCHANGED <<store, sessionCreationPromise, sessionCounter, now,
                       hostTabs, opsStarted, observe, saveTimeouts>>

\* deleteSession, resumed with the record getStorage read
DeleteAfterGet(p) ==
    LET c == calls[p]
    IN  /\ c.pc = "del_get"
        /\ Commit(One(p, [c EXCEPT
                !.pc = "del_set",
                !.storage = DeleteSessionStorage(store, c.sessionId)]))
        /\ currentSessionId' = IF store.currentSessionId = c.sessionId THEN Null
                               ELSE currentSessionId
        /\ UNCHANGED <<store, sessionCreationPromise, sessionCounter, now,
                       hostTabs, opsStarted, observe, saveTimeouts>>

\* switchToSession, resumed with the record getStorage read
SwitchAfterGet(p) ==
    LET c == calls[p]
        idx == FindSession(store, c.sessionId)
    IN  /\ c.pc = "swi_get"
        /\ IF idx = 0
           THEN /\ Commit(One(p, Return(c, Null, "Session not found")))
                /\ UNCHANGED currentSessionId
           ELSE IF currentSessionId = c.sessionId
           THEN /\ Commit(One(p, Return(c, Null, "Session is already active")))
                /\ UNCHANGED currentSessionId
           ELSE /\ Commit(One(p, [c EXCEPT
                    !.pc = "swi_set",
                    !.ret = c.sessionId,
                    !.storage = SwitchSessionStorage(store, idx, c.sessionId, now)]))
                /\ currentSessionId' = c.sessionId
        /\ UNCHANGED <<store, sessionCreationPromise, sessionCounter, now,
                       hostTabs, opsStarted, observe, saveTimeouts>>

\* restoreSession, resumed with the record getStorage read
RestoreAfterGet(p) ==
    LET c == calls[p]
        idx == FindSession(store, c.sessionId)
    IN  /\ c.pc = "res_get"
        /\ IF idx = 0
           THEN /\ Commit(One(p, Return(c, Null, "Session not found")))
                /\ UNCHANGED currentSessionId
           ELSE IF currentSessionId = c.sessionId
           THEN /\ Commit(One(p, Return(c, Null, "Session is already active")))
                /\ UNCHANGED currentSessionId
           ELSE IF store.sessions[idx].tabs = <<>>
           THEN /\ Commit(One(p, Return(c, Null, "Session has no tabs to restore")))
                /\ UNCHANGED currentSessionId
           ELSE /\ Commit(One(p, [c EXCEPT
                    !.pc = "res_set",
                    !.ret = c.sessionId,
                    !.retTabs = store.sessions[idx].tabs,
                    !.storage = RestoreSessionStorage(store, idx, c.sessionId, now)]))
                /\ currentSessionId' = c.sessionId
        /\ UNCHANGED <<store, sessionCreationPromise, sessionCounter, now,
                       hostTabs, opsStarted, observe, saveTimeouts>>

\* (mutant) getSessionForRestoration that skips the already-active check
ForRestorationAfterGetAnyTarget(p) ==
    LET c == calls[p]
        idx == FindSession(store, c.sessionId)
    IN  /\ c.pc = "gfr_get"
        /\ Commit(One(p,
             IF idx = 0 THEN Return(c, Null, "Session not found")
             ELSE IF store.sessions[idx].tabs = <<>>
             THEN Return(c, Null, "Session has no tabs to restore")
             ELSE Return([c EXCEPT !.retTabs = store.sessions[idx].tabs],
                         c.sessionId, "")))
        /\ UNCHANGED <<store, currentSessionId, sessionCreationPromise,
                       sessionCounter, now, hostTabs, opsStarted, observe,
                       saveTimeouts>>

\* (mutant) getSessionForRestoration that makes the session current in memory
ForRestorationAfterGetSwitching(p) ==
    LET c == calls[p]
        idx == FindSession(store, c.sessionId)
        ok == /\ idx > 0 /\ currentSessionId # c.sessionId
              /\ store.sessions[idx].tabs # <<>>
    IN  /\ c.pc = "gfr_get"
        /\ Commit(One(p,
             IF idx = 0 THEN Return(c, Null, "Session not found")
             ELSE IF currentSessionId = c.sessionId
             THEN Return(c, Null, "Session is already active")
             ELSE IF store.sessions[idx].tabs = <<>>
             THEN Return(c, Null, "Session has no tabs to restore")
             ELSE Return([c EXCEPT !.retTabs = store.sessions[idx].tabs],
                         c.sessionId, "")))
        /\ currentSessionId' = IF ok THEN c.sessionId ELSE currentSessionId
        /\ UNCHANGED <<store, sessionCreationPromise, sessionCounter, now,
                       hostTabs, opsStarted, observe, saveTimeouts>>

\* getSessionForRestoration, resumed with the record getStorage read
ForRestorationAfterGet(p) ==
    LET c == calls[p]
        idx == FindSession(store, c.sessionId)
    IN  /\ c.pc = "gfr_get"
        /\ Commit(One(p,
             IF idx = 0 THEN Return(c, Null, "Session not found")
             ELSE IF currentSessionId = c.sessionId
             THEN Return(c, Null, "Session is already active")
             ELSE IF store.sessions[idx].tabs = <<>>
             THEN Return(c, Null, "Session has no tabs to restore")
             ELSE Return([c EXCEPT !.retTabs = store.sessions[idx].tabs],
                         c.sessionId, "")))
        /\ UNCHANGED <<store, currentSessionId, sessionCreationPromise,
                       sessionCounter, now, hostTabs, opsStarted, observe,
                       saveTimeouts>>

\* (mutant) restoreSessionState that reads the record and leaves
\* this.currentSessionId as the constructor set it
RestoreStateAfterGetKeepsNull(p) ==
    LET c == calls[p]
    IN  /\ c.pc = "rss_get"
        /\ Commit(One(p, Return(c, currentSessionId, "")))
        /\ UNCHANGED <<store, currentSessionId, sessionCreationPromise,
                       sessionCounter, now, hostTabs, opsStarted, observe,
                       saveTimeouts>>

\* restoreSessionState, resumed with the record getStorage read.  A stored
\* id is a non-empty string, so `storage.currentSessionId || null` is the
\* stored value.
RestoreStateAfterGet(p) ==
    LET c == calls[p]
    IN  /\ c.pc = "rss_get"
        /\ currentSessionId' = store.currentSessionId
        /\ Commit(One(p, Return(c, store.currentSessionId, "")))
        /\ UNCHANGED <<store, sessionCreationPromise, sessionCounter, now,
                       hostTabs, opsStarted, observe, saveTimeouts>>

\* initialize, resumed with the record getStorage read (it returns true)
InitializeAfterGet(p) ==
    LET c == calls[p]
    IN  /\ c.pc = "ini_get"
        /\ currentSessionId' = store.currentSessionId
        /\ Commit(One(p, Return(c, Null, "")))
        /\ UNCHANGED <<store, sessionCreationPromise, sessionCounter, now,
                       hostTabs, opsStarted, observe, saveTimeouts>>

\* The host ends the worker and starts it again: the calls in flight are
\* gone, and a new SessionManager is constructed over the same store.  A
\* restart takes time.
Restart ==
    /\ now < MaxClock
    /\ now' = now + 1
    /\ currentSessionId' = Null
    /\ sessionCreationPromise' = "null"
    /\ sessionCounter' = 0
    /\ calls' = [q \in {CreationTask} \cup Slots |-> IdleCall]
    /\ prev' = [NoCall EXCEPT !.op = "constructor"]
    /\ UNCHANGED <<store, hostTabs, opsStarted, observe, saveTimeouts>>

\* (mutant) a failed creation whose handle is never cleared (no finally)
CreateRejectedKeepsHandle(p) ==
    LET c == calls[p]
    IN  /\ c.pc \in {"cns_get", "cns_query", "cns_set"}
        /\ prev.error # "rejected"
        /\ IF p = CreationTask
           THEN Commit([q \in Awaiters \cup {p} |->
                          IF q = p THEN IdleCall
                          ELSE Return(calls[q], Null, "rejected")])
           ELSE Commit(One(p, Return(c, Null, "rejected")))
        /\ UNCHANGED <<store, currentSessionId, sessionCreationPromise,
                       sessionCounter, now, hostTabs, opsStarted, observe,
                       saveTimeouts>>

\* The host call createNewSession awaits (storage read, tab query or storage
\* write) rejects: createNewSession throws.  Behind sessionCreationPromise,
\* the finally callback clears the handle and every awaiting caller throws.
\* The host fails at most one call in a row.
CreateRejected(p) ==
    LET c == calls[p]
    IN  /\ c.pc \in {"cns_get", "cns_query", "cns_set"}
        /\ prev.error # "rejected"
        /\ IF p = CreationTask
           THEN /\ sessionCreationPromise' = "null"
                /\ Commit([q \in Awaiters \cup {p} |->
                             IF q = p THEN IdleCall
                             ELSE Return(calls[q], Null, "rejected")])
           ELSE /\ Commit(One(p, Return(c, Null, "rejected")))
                /\ UNCHANGED sessionCreationPromise
        /\ UNCHANGED <<store, currentSessionId, sessionCounter, now, hostTabs,
                       opsStarted, observe, saveTimeouts>>

\* createNewSession over a record without a sessions list: after the tab
\* query, `storage.sessions.unshift` throws before currentSessionId is
\* assigned.  Behind sessionCreationPromise, the finally callback clears the
\* handle and every awaiting caller throws.
CreateThrows(p) ==
    LET c == calls[p]
    IN  /\ c.pc = "cns_query"
        /\ ~HasSessions(c.storage)
        /\ IF p = CreationTask
           THEN /\ sessionCreationPromise' = "null"
                /\ Commit([q \in Awaiters \cup {p} |->
                             IF q = p THEN IdleCall
                             ELSE Return(calls[q], Null, "TypeError")])
           ELSE /\ Commit(One(p, Return(c, Null, "TypeError")))
                /\ UNCHANGED sessionCreationPromise
        /\ UNCHANGED <<store, currentSessionId, sessionCounter, now, hostTabs,
                       opsStarted, observe, saveTimeouts>>

\* ensureActiveSession with a current session id over a record without a
\* sessions list: `storage.sessions.find` throws
EnsureThrows(p) ==
    LET c == calls[p]
    IN  /\ c.pc = "eas_get"
        /\ currentSessionId # Null
        /\ ~HasSessions(store)
        /\ Commit(One(p, Return(c, Null, "TypeError")))
        /\ UNCHANGED <<store, currentSessionId, sessionCreationPromise,
                       sessionCounter, now, hostTabs, opsStarted, observe,
                       saveTimeouts>>

\* checkAndCloseSessionIfAllTabsClosed, resumed with the tabs
\* chrome.tabs.query reported
CheckAfterQuery(p) ==
    LET c == calls[p]
    IN  /\ c.pc = "chk_query"
        /\ Commit(One(p, IF ValidTabs(hostTabs) = <<>> /\ currentSessionId # Null
                         THEN [c EXCEPT !.pc = "chk_get"]
                         ELSE Return(c, JsFalse, "")))
        /\ UNCHANGED <<store, currentSessionId, sessionCreationPromise,
                       sessionCounter, now, hostTabs, opsStarted, observe,
                       saveTimeouts>>

\* checkAndCloseSessionIfAllTabsClosed, resumed with the record getStorage read
CheckAfterGet(p) ==
    LET c == calls[p]
        idx == FindSession(store, currentSessionId)
    IN  /\ c.pc = "chk_get"
        /\ IF idx = 0
           THEN /\ Commit(One(p, Return(c, JsTrue, "")))
                /\ UNCHANGED currentSessionId
           ELSE /\ Commit(One(p, [c EXCEPT
                    !.pc = "chk_set",
                    !.ret = JsTrue,
                    !.storage = CloseCurrentSessionStorage(store, idx, now)]))
                /\ currentSessionId' = Null
        /\ UNCHANGED <<store, sessionCreationPromise, sessionCounter, now,
                       hostTabs, opsStarted, observe, saveTimeouts>>

\* any method but createNewSession, resumed after saveStorage wrote its record
SavePcs == {"add_set", "upd_set", "mov_set", "cls_set", "sav_set", "del_set",
            "swi_set", "res_set", "chk_set"}

AfterSave(p) ==
    LET c == calls[p]
    IN  /\ c.pc \in SavePcs
        /\ store' = c.storage
        /\ Commit(One(p, Return([c EXCEPT !.wrote = TRUE], c.ret, "")))
        /\ UNCHANGED <<currentSessionId, sessionCreationPromise, sessionCounter,
                       now, hostTabs, opsStarted, observe, saveTimeouts>>

\* time passes
Tick ==
    /\ now < MaxClock
    /\ now' = now + 1
    /\ UNCHANGED <<store, currentSessionId, sessionCreationPromise,
                   sessionCounter, hostTabs, calls, opsStarted, observe, prev,
                   saveTimeouts>>

----------------------------------------------------------------------------
(* Specifications *)

\* what the host may report as open tabs
HostTabLists ==
    {<<>>, <<TabA1, TabB2>>, <<TabSys3, TabB2>>, <<TabA1, TabReg4, TabA2>>}

\* the arguments the callers pass
TabArgs == {TabA1, TabB2, TabB1, TabA2}
TabIdArgs == {1, 2}
PartialArgs == {[url |-> UrlB], [title |-> "T"],
                [url |-> UrlA, title |-> "T", favIconUrl |-> "t.ico"]}
SessionIdArgs == {store.sessions[i].id : i \in 1..Len(store.sessions)}
                    \cup {DanglingId}

\* the manager as constructed, over an empty store
Constructed ==
    /\ store = EmptyStorage
    /\ currentSessionId = Null
    /\ sessionCreationPromise = "null"
    /\ sessionCounter = 0
    /\ now = 1
    /\ calls = [q \in {CreationTask} \cup Slots |-> IdleCall]
    /\ saveTimeouts = NoTimeouts
    /\ opsStarted = 0
    /\ prev = NoCall

Init ==
    /\ Constructed
    /\ hostTabs \in {<<TabA1, TabB2>>, <<TabSys3>>}
    /\ observe = FALSE

InitSeq ==
    /\ Constructed
    /\ hostTabs \in HostTabLists
    /\ observe = TRUE

Resume(p) ==
    \/ EnsureAfterGet(p)
    \/ CreateAfterGet(p)
    \/ CreateAfterQuery(p)
    \/ CreateAfterSave(p)
    \/ AddAfterGet(p)
    \/ UpdateAfterGet(p)
    \/ MoveAfterGet(p)
    \/ CloseAfterGet(p)
    \/ SaveAfterGet(p)
    \/ DeleteAfterGet(p)
    \/ SwitchAfterGet(p)
    \/ RestoreAfterGet(p)
    \/ AfterSave(p)

\* a call of a method that works on the tabs of the current session
InvokeTabMethod(p, tabs, tabIds, partials) ==
    \/ ensureActiveSession(p)
    \/ createNewSession(p)
    \/ \E tab \in tabs : addTabToSession(p, tab)
    \/ \E tabId \in tabIds, tab \in partials : updateTabInSession(p, tabId, tab)
    \/ \E tabId \in tabIds : moveTabToClosedTabs(p, tabId)

\* a call of a method that archives a session or moves the pointer
InvokeSessionMethod(p) ==
    \/ \E sessionId \in SessionIdArgs : closeSession(p, sessionId)
    \/ manualSaveSession(p)
    \/ \E sessionId \in SessionIdArgs : switchToSession(p, sessionId)

InvokeOtherSessionMethod(p) ==
    \/ \E sessionId \in SessionIdArgs : deleteSession(p, sessionId)
    \/ \E sessionId \in SessionIdArgs : restoreSession(p, sessionId)

\* Slots are interchangeable: a new call takes the lowest free one.
LowestFree(p) == Quiet(calls[p]) /\ \A q \in Slots : q < p => ~Quiet(calls[q])

\* Calls overlap: any interleaving of their steps.  The clock stands still
\* here: no branch of the methods reads a timestamp, and the ids minted
\* differ by sessionCounter.
Next ==
    \/ \E p \in Slots :
          /\ LowestFree(p)
          /\ \/ InvokeTabMethod(p, {TabA1}, {1}, {[url |-> UrlB]})
             \/ InvokeSessionMethod(p)
             \/ InvokeOtherSessionMethod(p)
    \/ \E p \in {CreationTask} \cup Slots : Resume(p)

Spec == Init /\ [][Next]_vars

\* One call at a time: the next call is made when the last one has returned.
AllQuiet == \A q \in DOMAIN calls : Quiet(calls[q])

NextSeq ==
    \/ /\ AllQuiet
       /\ \/ InvokeTabMethod(1, TabArgs, TabIdArgs, PartialArgs)
          \/ InvokeSessionMethod(1)
    \/ \E p \in {CreationTask, 1} :
          \/ EnsureAfterGet(p)
          \/ CreateAfterGet(p)
          \/ CreateAfterQuery(p)
          \/ CreateAfterSave(p)
          \/ AddAfterGet(p)
          \/ UpdateAfterGet(p)
          \/ MoveAfterGet(p)
          \/ CloseAfterGet(p)
          \/ SaveAfterGet(p)
          \/ SwitchAfterGet(p)
          \/ AfterSave(p)
    \/ Tick

SpecSeq == InitSeq /\ [][NextSeq]_vars

----------------------------------------------------------------------------
(* Concurrent ensureActiveSession calls while no session is active *)

\* the id of the session the constructed manager minted at time 0
FirstId == <<0, 1>>

\* the store once the constructed manager has run createNewSession at time 0
StorageAfterFirstCreate ==
    CreateNewSessionStorage(EmptyStorage, FirstId, 0, hostTabs, 0)

\* the manager once it has run one createNewSession
AfterFirstCreate ==
    /\ sessionCreationPromise = "null"
    /\ sessionCounter = 1
    /\ now = 1
    /\ hostTabs \in HostTabLists
    /\ calls = [q \in {CreationTask} \cup Slots |-> IdleCall]
    /\ saveTimeouts = NoTimeouts
    /\ opsStarted = 0
    /\ observe = TRUE
    /\ prev = NoCall

\* No session is active: the manager is new, or its session was closed, or
\* its session is gone from the store (currentSessionId dangles).
InitEnsure ==
    \/ /\ Constructed
       /\ hostTabs \in HostTabLists
       /\ observe = TRUE
    \/ /\ AfterFirstCreate
       /\ store = CloseSessionStorage(StorageAfterFirstCreate, 1, FirstId, FirstId, 0)
       /\ currentSessionId = Null
    \/ /\ AfterFirstCreate
       /\ store = DeleteSessionStorage(StorageAfterFirstCreate, FirstId)
       /\ currentSessionId = FirstId

NextEnsure ==
    \/ \E p \in Slots : ensureActiveSession(p)
    \/ \E p \in {CreationTask} \cup Slots :
          \/ EnsureAfterGet(p)
          \/ CreateAfterGet(p)
          \/ CreateAfterQuery(p)
          \/ CreateAfterSave(p)
    \/ Tick

SpecEnsure == InitEnsure /\ [][NextEnsure]_vars

----------------------------------------------------------------------------
(* Concurrent addTabToSession calls for different tabs, a session active *)

TabC3 == [id |-> 3, windowId |-> 1, url |-> Url("https://", "c.test"),
          title |-> "C", incognito |-> TRUE]
TabD4 == [id |-> 4, windowId |-> 1, url |-> Url("https://", "d.test"),
          title |-> "D", incognito |-> TRUE]

\* slot p adds tab DistinctTabs[p]: pairwise distinct tabIds and urls
DistinctTabs == <<TabA1, TabB2, TabC3, TabD4>>

InitAdd ==
    /\ AfterFirstCreate
    /\ hostTabs = <<>>
    /\ store = StorageAfterFirstCreate
    /\ currentSessionId = FirstId

NextAdd ==
    \/ \E p \in Slots : p <= Len(DistinctTabs) /\ addTabToSession(p, DistinctTabs[p])
    \/ \E p \in Slots : AddAfterGet(p) \/ AfterSave(p)
    \/ Tick

SpecAdd == InitAdd /\ [][NextAdd]_vars

----------------------------------------------------------------------------
(* Tabs of the active session are closed one after the other *)

\* the manager once createNewSession has seeded a session from four tabs
InitClosed ==
    /\ hostTabs = DistinctTabs
    /\ store = StorageAfterFirstCreate
    /\ currentSessionId = FirstId
    /\ sessionCreationPromise = "null"
    /\ sessionCounter = 1
    /\ now = 1
    /\ calls = [q \in {CreationTask} \cup Slots |-> IdleCall]
    /\ saveTimeouts = NoTimeouts
    /\ opsStarted = 0
    /\ observe = TRUE
    /\ prev = NoCall

NextClosed ==
    \/ /\ AllQuiet
       /\ \/ \E tabId \in 1..Len(DistinctTabs) : moveTabToClosedTabs(1, tabId)
          \/ addTabToSession(1, TabA1)
    \/ MoveAfterGet(1)
    \/ AddAfterGet(1)
    \/ AfterSave(1)
    \/ Tick

SpecClosed == InitClosed /\ [][NextClosed]_vars

----------------------------------------------------------------------------
(* Sessions are archived, switched to and restored, one call at a time *)

SecondId == <<0, 2>>

\* the store once the manager has created a session from firstTabs, saved it
\* with manualSaveSession and created a second one from the tabs now open
StorageAfterSecondCreate(firstTabs) ==
    CreateNewSessionStorage(
        ManualSaveStorage(
            CreateNewSessionStorage(EmptyStorage, FirstId, 0, firstTabs, 0), 1, 0),
        SecondId, 0, hostTabs, 0)

\* the store once the manager has created a session while no tab was open
\* and cleanupEmptySessions has run: both pointers dangle
StorageAfterCleanup ==
    CleanupEmptySessionsStorage(
        CreateNewSessionStorage(EmptyStorage, FirstId, 0, <<>>, 0))

InitArchive ==
    /\ sessionCreationPromise = "null"
    /\ now = 1
    /\ calls = [q \in {CreationTask} \cup Slots |-> IdleCall]
    /\ saveTimeouts = NoTimeouts
    /\ opsStarted = 0
    /\ observe = TRUE
    /\ prev = NoCall
    /\ hostTabs \in {<<TabA1, TabB2>>, <<TabSys3>>}
    /\ \/ /\ store = StorageAfterFirstCreate
          /\ currentSessionId = FirstId
          /\ sessionCounter = 1
       \/ /\ \E firstTabs \in {<<TabC3, TabD4>>, <<TabSys3>>} :
                store = StorageAfterSecondCreate(firstTabs)
          /\ currentSessionId = SecondId
          /\ sessionCounter = 2
       \/ /\ store = StorageAfterCleanup
          /\ currentSessionId = FirstId
          /\ sessionCounter = 1

\* The clock stands still: the methods stamp `modified` and read no timestamp.
NextArchive ==
    \/ /\ AllQuiet
       /\ \/ \E tab \in {TabA1, TabC3} : addTabToSession(1, tab)
          \/ InvokeSessionMethod(1)
          \/ \E sessionId \in SessionIdArgs : restoreSession(1, sessionId)
          \/ \E sessionId \in SessionIdArgs : getSessionForRestoration(1, sessionId)
    \/ \E p \in {CreationTask, 1} :
          \/ EnsureAfterGet(p)
          \/ CreateAfterGet(p)
          \/ CreateAfterQuery(p)
          \/ CreateAfterSave(p)
          \/ AddAfterGet(p)
          \/ CloseAfterGet(p)
          \/ SaveAfterGet(p)
          \/ SwitchAfterGet(p)
          \/ RestoreAfterGet(p)
          \/ ForRestorationAfterGet(p)
          \/ AfterSave(p)

SpecArchive == InitArchive /\ [][NextArchive]_vars

----------------------------------------------------------------------------
(* The worker restarts and the new manager reads its state back *)

NextRestart ==
    \/ /\ AllQuiet
       /\ \/ InvokeTabMethod(1, {TabA1}, {1}, {[url |-> UrlB]})
          \/ manualSaveSession(1)
          \/ restoreSessionState(1)
          \/ initialize(1)
    \/ \E p \in {CreationTask, 1} :
          \/ EnsureAfterGet(p)
          \/ CreateAfterGet(p)
          \/ CreateAfterQuery(p)
          \/ CreateAfterSave(p)
          \/ AddAfterGet(p)
          \/ UpdateAfterGet(p)
          \/ MoveAfterGet(p)
          \/ SaveAfterGet(p)
          \/ RestoreStateAfterGet(p)
          \/ InitializeAfterGet(p)
          \/ AfterSave(p)
    \/ Restart

SpecRestart == InitArchive /\ [][NextRestart]_vars

----------------------------------------------------------------------------
(* Session creation fails while callers wait for it *)

NextFail ==
    \/ \E p \in Slots : ensureActiveSession(p)
    \/ \E p \in {CreationTask} \cup Slots :
          \/ EnsureAfterGet(p)
          \/ CreateAfterGet(p)
          \/ CreateAfterQuery(p)
          \/ CreateAfterSave(p)
          \/ CreateRejected(p)

SpecFail == InitEnsure /\ [][NextFail]_vars

----------------------------------------------------------------------------
(* The last tab goes: the session is closed, one call at a time *)

InitCheck ==
    /\ Constructed
    /\ hostTabs \in {<<>>, <<TabSys3>>, <<TabA1, TabB2>>}
    /\ observe = TRUE

NextCheck ==
    \/ /\ AllQuiet
       /\ \/ ensureActiveSession(1)
          \/ createNewSession(1)
          \/ checkAndCloseSessionIfAllTabsClosed(1)
          \/ \E tab \in {TabA1} : addTabToSession(1, tab)
    \/ \E p \in {CreationTask, 1} :
          \/ EnsureAfterGet(p)
          \/ CreateAfterGet(p)
          \/ CreateAfterQuery(p)
          \/ CreateAfterSave(p)
          \/ CreateRejected(p)
          \/ AddAfterGet(p)
          \/ CheckAfterQuery(p)
          \/ CheckAfterGet(p)
          \/ AfterSave(p)
    \/ Tick

SpecCheck == InitCheck /\ [][NextCheck]_vars

----------------------------------------------------------------------------
(* The manager starts over a record that is absent or malformed *)

\* records without a sessions list, with and without a current session id
MalformedStorages ==
    {[currentSessionId |-> Null], [currentSessionId |-> <<1, 1>>]}

\* An absent record is read as EmptyStorage by getStorage.
InitCorrupt ==
    /\ store \in {EmptyStorage} \cup MalformedStorages
    /\ currentSessionId = Null
    /\ sessionCreationPromise = "null"
    /\ sessionCounter = 0
    /\ now = 1
    /\ hostTabs \in {<<>>, <<TabA1>>, <<TabA1, TabB2>>}
    /\ calls = [q \in {CreationTask} \cup Slots |-> IdleCall]
    /\ opsStarted = 0
    /\ observe = TRUE
    /\ prev = [NoCall EXCEPT !.op = "constructor"]
    /\ saveTimeouts = NoTimeouts

NextCorrupt ==
    \/ /\ AllQuiet
       /\ \/ initialize(1)
          \/ ensureActiveSession(1)
          \/ createNewSession(1)
    \/ \E p \in {CreationTask, 1} :
          \/ InitializeAfterGet(p)
          \/ EnsureAfterGet(p)
          \/ EnsureThrows(p)
          \/ CreateAfterGet(p)
          \/ CreateAfterQuery(p)
          \/ CreateThrows(p)
          \/ CreateAfterSave(p)
    \/ Tick

SpecCorrupt == InitCorrupt /\ [][NextCorrupt]_vars

----------------------------------------------------------------------------

(* Stored sessions carry names that end with ' (Closed)' *)

\* the names of the stored sessions: the one createNewSession gives, and
\* names with the suffix once and twice
StoredNames == {<<>>, <<ClosedSuffix>>, <<ClosedSuffix, ClosedSuffix>>}

Renamed(storage, name) ==
    [storage EXCEPT !.sessions =
        [i \in DOMAIN storage.sessions |->
            [storage.sessions[i] EXCEPT !.name = name]]]

InitRenamed ==
    /\ sessionCreationPromise = "null"
    /\ now = 1
    /\ calls = [q \in {CreationTask} \cup Slots |-> IdleCall]
    /\ saveTimeouts = NoTimeouts
    /\ opsStarted = 0
    /\ observe = TRUE
    /\ prev = NoCall
    /\ hostTabs \in {<<TabA1, TabB2>>, <<TabSys3>>}
    /\ \E name \in StoredNames :
          \/ /\ store = Renamed(StorageAfterFirstCreate, name)
             /\ currentSessionId = FirstId
             /\ sessionCounter = 1
          \/ /\ \E firstTabs \in {<<TabC3, TabD4>>, <<TabSys3>>} :
                   store = Renamed(StorageAfterSecondCreate(firstTabs), name)
             /\ currentSessionId = SecondId
             /\ sessionCounter = 2

SpecRenamed == InitRenamed /\ [][NextArchive]_vars

----------------------------------------------------------------------------


(* Properties *)

SessionIds(storage) == {storage.sessions[i].id : i \in 1..Len(storage.sessions)}

\* the sessions of the store that were not there when the calls began
NewSessions == {i \in 1..Len(store.sessions) : store.sessions[i].id # FirstId}

ConcurrentAddsAllTakeEffect ==
    AllQuiet =>
        /\ \A p \in Slots :
              calls[p].pc = "done" =>
                  \E i \in 1..Len(store.sessions[1].tabs) :
                      /\ store.sessions[1].tabs[i].tabId = calls[p].tab.id
                      /\ store.sessions[1].tabs[i].url = calls[p].tab.url
        /\ store.currentSessionId = FirstId
        /\ Len(store.sessions) = 1

\* C3: in every persisted record, a non-null currentSessionId is the id of a
\* session of the record.
PersistedPointerResolves ==
    store.currentSessionId # Null => store.currentSessionId \in SessionIds(store)

\* the pointer was moved to an older session while two sessions are stored
PersistedPointerWitness ==
    /\ Len(store.sessions) = 2
    /\ store.currentSessionId = store.sessions[2].id

\* the call that returned last, when calls are made one at a time
Returned(op) == calls[1].pc = "done" /\ calls[1].op = op

\* the tabs of the current session of a record (none when it has no such session)
CurrentTabs(storage, mem) ==
    IF mem \in SessionIds(storage)
    THEN storage.sessions[FindSession(storage, mem)].tabs
    ELSE <<>>

\* C4: createNewSession on an empty store with no active session, the host
\* reporting at least one private tab, leaves exactly one session; its tabs
\* are the reported private tabs with non-system urls, one entry per tab with
\* that tab's id and url; currentSessionId is its id in storage and in memory.
CreateSeedsOneSession ==
    LET c == calls[1]
        reported == {i \in 1..Len(hostTabs) :
                        hostTabs[i].incognito /\ ~isSystemUrl(hostTabs[i].url)}
    IN  (/\ Returned("createNewSession")
         /\ c.pre = EmptyStorage /\ c.preMem = Null
         /\ \E i \in 1..Len(hostTabs) : hostTabs[i].incognito)
        => /\ Len(store.sessions) = 1
           /\ LET tabs == store.sessions[1].tabs
              IN  /\ Len(tabs) = Cardinality(reported)
                  /\ \A i \in reported : \E j \in 1..Len(tabs) :
                        tabs[j].tabId = hostTabs[i].id /\ tabs[j].url = hostTabs[i].url
                  /\ \A j \in 1..Len(tabs) : \E i \in reported :
                        tabs[j].tabId = hostTabs[i].id /\ tabs[j].url = hostTabs[i].url
           /\ store.currentSessionId = store.sessions[1].id
           /\ currentSessionId = store.sessions[1].id
           /\ c.ret = store.sessions[1].id

\* a session seeded from a host list that also holds a tab of the other context
CreateSeedsWitness ==
    /\ Returned("createNewSession")
    /\ calls[1].pre = EmptyStorage
    /\ Len(hostTabs) = 3
    /\ Len(store.sessions) = 1 /\ Len(store.sessions[1].tabs) = 2

\* C5: addTabToSession on an existing active session leaves the number of
\* sessions unchanged; the session gains exactly one entry, at the end, unless
\* an entry with the tab's tabId or url existed, in which case one such entry
\* is replaced in place and the number of entries is unchanged.
AddAppendsOrReplaces ==
    LET c == calls[1]
        old == CurrentTabs(c.pre, c.preMem)
        new == CurrentTabs(store, currentSessionId)
        Same(e) == e.tabId = c.tab.id \/ e.url = c.tab.url
        IsTab(e) == e.tabId = c.tab.id /\ e.url = c.tab.url
    IN  (Returned("addTabToSession") /\ c.preMem \in SessionIds(c.pre))
        => /\ c.error = ""
           /\ currentSessionId = c.preMem
           /\ Len(store.sessions) = Len(c.pre.sessions)
           /\ IF \E i \in 1..Len(old) : Same(old[i])
              THEN /\ Len(new) = Len(old)
                   /\ \E i \in 1..Len(old) :
                         /\ Same(old[i]) /\ IsTab(new[i])
                         /\ \A j \in 1..Len(old) : j # i => new[j] = old[j]
              ELSE /\ Len(new) = Len(old) + 1
                   /\ IsTab(new[Len(new)])
                   /\ SubSeq(new, 1, Len(old)) = old

\* an entry of another tabId with the same url was replaced in place
AddReplacesByUrlWitness ==
    LET c == calls[1]
        old == CurrentTabs(c.pre, c.preMem)
        new == CurrentTabs(store, currentSessionId)
    IN  /\ Returned("addTabToSession") /\ c.preMem \in SessionIds(c.pre)
        /\ Len(old) >= 1 /\ Len(new) = Len(old)
        /\ \A i \in 1..Len(old) : old[i].tabId # c.tab.id
        /\ \E i \in 1..Len(old) : old[i].url = c.tab.url /\ new[i].tabId = c.tab.id

\* what a retry may not change of an entry
EntryData(e) ==
    [tabId |-> e.tabId, url |-> e.url, title |-> e.title, favicon |-> e.favicon,
     windowId |-> e.windowId]

TabData(storage) ==
    [i \in 1..Len(storage.sessions) |->
        [j \in 1..Len(storage.sessions[i].tabs) |->
            EntryData(storage.sessions[i].tabs[j])]]

\* C6: addTabToSession(tab) called again right after addTabToSession(tab)
\* leaves the tab entries as the first call left them: same number, and the
\* same tabId, url, title, favicon and windowId at each position.
AddTwiceIsAddOnce ==
    LET c == calls[1]
    IN  (/\ Returned("addTabToSession")
         /\ c.after.op = "addTabToSession" /\ c.after.tab = c.tab)
        => /\ TabData(store) = TabData(c.pre)
           /\ c.error = c.after.error

\* the retry of an add that had appended an entry
AddTwiceWitness ==
    LET c == calls[1]
    IN  /\ Returned("addTabToSession")
        /\ c.after.op = "addTabToSession" /\ c.after.tab = c.tab
        /\ c.after.wrote /\ c.wrote
        /\ Len(CurrentTabs(store, currentSessionId)) = 1
        /\ opsStarted = 2

\* C7: updateTabInSession(tabId, partial) for a tab of the active session
\* changes only those of url, title and favicon that partial provides (and
\* the timestamp): an omitted url stays; tabId, windowId, record id and
\* position stay; the other entries stay.
UpdateMergesProvidedFields ==
    LET c == calls[1]
        old == CurrentTabs(c.pre, c.preMem)
        new == CurrentTabs(store, currentSessionId)
        k == TabIndexOf(old, c.tabId)
    IN  (Returned("updateTabInSession") /\ k > 0)
        => /\ c.error = ""
           /\ currentSessionId = c.preMem
           /\ Len(new) = Len(old)
           /\ \A j \in 1..Len(old) : j # k => new[j] = old[j]
           /\ new[k].tabId = old[k].tabId
           /\ new[k].windowId = old[k].windowId
           /\ new[k].id = old[k].id
           /\ new[k].url = Prop(c.tab, "url", old[k].url)
           /\ new[k].title = Prop(c.tab, "title", old[k].title)
           /\ new[k].favicon = Prop(c.tab, "favIconUrl", old[k].favicon)

\* C8: updateTabInSession with no active session (currentSessionId null, or
\* naming no stored session) returns without an error and leaves the store
\* as it was.
UpdateWithoutSessionIsSilent ==
    LET c == calls[1]
    IN  (Returned("updateTabInSession") /\ c.preMem \notin SessionIds(c.pre))
        => c.error = "" /\ store = c.pre

ClosedEntriesOf(storage, mem, tabId) ==
    IF mem \in SessionIds(storage)
    THEN LET closed == storage.sessions[FindSession(storage, mem)].closedTabs
         IN  {i \in 1..Len(closed) : closed[i].tabId = tabId}
    ELSE {}

\* C10: moveTabToClosedTabs(tabId) called again right after
\* moveTabToClosedTabs(tabId) writes nothing: the store is as the first call
\* left it, so closedTabs holds one entry for the closed tab, not two.
MoveTwiceIsMoveOnce ==
    LET c == calls[1]
    IN  (/\ Returned("moveTabToClosedTabs")
         /\ c.after.op = "moveTabToClosedTabs" /\ c.after.tabId = c.tabId)
        => /\ c.error = ""
           /\ ~c.wrote
           /\ store = c.pre
           /\ Cardinality(ClosedEntriesOf(store, currentSessionId, c.tabId))
                = Cardinality(ClosedEntriesOf(c.pre, c.preMem, c.tabId))

\* the second close of a tab whose first close archived it
MoveTwiceWitness ==
    LET c == calls[1]
    IN  /\ Returned("moveTabToClosedTabs")
        /\ c.after.op = "moveTabToClosedTabs" /\ c.after.tabId = c.tabId
        /\ c.after.wrote
        /\ Cardinality(ClosedEntriesOf(store, currentSessionId, c.tabId)) = 1

\* the closedTabs of the current session of a record
CurrentClosedTabs(storage, mem) ==
    IF mem \in SessionIds(storage)
    THEN storage.sessions[FindSession(storage, mem)].closedTabs
    ELSE <<>>

\* C11: every session's closedTabs has at most MAX_CLOSED_TABS entries, newest
\* closure first; a close that takes effect puts the closed tab at the head
\* and keeps the entries before it in their order, dropping those beyond
\* MAX_CLOSED_TABS: the oldest closures are the ones evicted.
ClosedTabsKeepNewest ==
    LET c == calls[1]
        old == CurrentClosedTabs(c.pre, c.preMem)
        new == CurrentClosedTabs(store, currentSessionId)
    IN  /\ \A i \in 1..Len(store.sessions) :
              LET closed == store.sessions[i].closedTabs
              IN  /\ Len(closed) <= MAX_CLOSED_TABS
                  /\ \A j, k \in 1..Len(closed) :
                        j < k => closed[j].closedAt >= closed[k].closedAt
        /\ (Returned("moveTabToClosedTabs") /\ c.wrote)
           => /\ Len(new) = IF Len(old) < MAX_CLOSED_TABS THEN Len(old) + 1
                            ELSE MAX_CLOSED_TABS
              /\ new[1].tabId = c.tabId
              /\ \A j \in 2..Len(new) : new[j] = old[j - 1]

\* a tab was closed while closedTabs was full: the oldest closure went
ClosedTabsEvictWitness ==
    LET c == calls[1]
        old == CurrentClosedTabs(c.pre, c.preMem)
        new == CurrentClosedTabs(store, currentSessionId)
    IN  /\ Returned("moveTabToClosedTabs") /\ c.wrote
        /\ Len(old) = MAX_CLOSED_TABS
        /\ Len(new) = MAX_CLOSED_TABS
        /\ \A j \in 1..Len(new) : new[j].tabId # old[Len(old)].tabId

\* C12: moveTabToClosedTabs(tabId) for a tab of the active session moves it
\* in one write: until the call returns the store is as before; afterwards
\* no entry of tabs has the tabId, tabs is shorter by one, and the entry
\* heads closedTabs with closedAt set and its url, title, favicon and
\* windowId as they were.
MoveIsOneStep ==
    LET c == calls[1]
        oldTabs == CurrentTabs(c.pre, c.preMem)
        k == CHOOSE i \in 1..Len(oldTabs) : oldTabs[i].tabId = c.tabId
        newTabs == CurrentTabs(store, currentSessionId)
        newClosed == CurrentClosedTabs(store, currentSessionId)
    IN  (/\ c.op = "moveTabToClosedTabs"
         /\ \E i \in 1..Len(oldTabs) : oldTabs[i].tabId = c.tabId)
        => IF c.pc = "done"
           THEN /\ c.error = "" /\ c.wrote
                /\ currentSessionId = c.preMem
                /\ \A i \in 1..Len(newTabs) : newTabs[i].tabId # c.tabId
                /\ Len(newTabs) = Len(oldTabs) - 1
                /\ newClosed # <<>>
                /\ newClosed[1].tabId = c.tabId
                /\ newClosed[1].closedAt # UndefinedNum
                /\ newClosed[1].url = oldTabs[k].url
                /\ newClosed[1].title = oldTabs[k].title
                /\ newClosed[1].favicon = oldTabs[k].favicon
                /\ newClosed[1].windowId = oldTabs[k].windowId
           ELSE store = c.pre

\* a tab with a title and a favicon was moved out of a session of four
MoveIsOneStepWitness ==
    LET c == calls[1]
    IN  /\ Returned("moveTabToClosedTabs") /\ c.wrote
        /\ c.tabId = 1
        /\ Len(CurrentTabs(c.pre, c.preMem)) = Len(DistinctTabs)
        /\ CurrentClosedTabs(store, currentSessionId)[1].favicon = "a.ico"

\* the session with the given id in a record
SessionOf(storage, id) == storage.sessions[FindSession(storage, id)]

\* C13: closeSession(id) on the current session nulls currentSessionId in
\* storage and in memory and sets the session's status to "closed"; its tabs,
\* closedTabs, name and created stay.  closeSession(id) on a stored session
\* that is not current leaves currentSessionId as it was.
CloseClearsPointer ==
    LET c == calls[1]
    IN  (Returned("closeSession") /\ c.sessionId \in SessionIds(c.pre))
        => /\ c.error = ""
           /\ c.sessionId \in SessionIds(store)
           /\ IF c.preMem = c.sessionId
              THEN /\ store.currentSessionId = Null
                   /\ currentSessionId = Null
                   /\ SessionOf(store, c.sessionId).status = "closed"
                   /\ \A f \in {"tabs", "closedTabs", "name", "created"} :
                         SessionOf(store, c.sessionId)[f]
                            = SessionOf(c.pre, c.sessionId)[f]
              ELSE /\ store.currentSessionId = c.pre.currentSessionId
                   /\ currentSessionId = c.preMem

\* the current session, which has tabs, was closed
CloseClearsPointerWitness ==
    LET c == calls[1]
    IN  /\ Returned("closeSession") /\ c.wrote
        /\ c.preMem = c.sessionId
        /\ c.pre.currentSessionId = c.sessionId
        /\ SessionOf(c.pre, c.sessionId).tabs # <<>>
        /\ Len(store.sessions) = 2

\* addTabToSession has returned, the call before it was a manualSaveSession
\* or a closeSession that archived the session current at the time (mem)
AddedAfterArchive ==
    LET c == calls[1]
    IN  /\ Returned("addTabToSession")
        /\ \/ c.after.op = "manualSaveSession"
           \/ c.after.op = "closeSession" /\ c.after.sessionId = c.after.mem
        /\ c.after.wrote
        /\ c.after.mem \in SessionIds(c.pre)

\* the call created a session, made it current and recorded the tab in it
StartedFreshSession ==
    LET c == calls[1]
        tabs == CurrentTabs(store, currentSessionId)
    IN  /\ c.error = ""
        /\ currentSessionId # Null
        /\ currentSessionId \notin SessionIds(c.pre)
        /\ currentSessionId \in SessionIds(store)
        /\ store.currentSessionId = currentSessionId
        /\ \E i \in 1..Len(tabs) :
              tabs[i].tabId = c.tab.id /\ tabs[i].url = c.tab.url

\* the archived session is stored with the tabs and closedTabs it had
ArchivedSessionKept ==
    LET c == calls[1]
    IN  /\ c.after.mem \in SessionIds(store)
        /\ SessionOf(store, c.after.mem).tabs
              = SessionOf(c.pre, c.after.mem).tabs
        /\ SessionOf(store, c.after.mem).closedTabs
              = SessionOf(c.pre, c.after.mem).closedTabs

\* C14 (as stated): after manualSaveSession or closeSession on the current
\* session, the next addTabToSession creates a session with a new id, makes
\* it current and records the tab in it, and the archived session's tabs and
\* closedTabs are unchanged.
AddAfterArchiveStartsFresh ==
    AddedAfterArchive => StartedFreshSession /\ ArchivedSessionKept

\* C14 (amended): as stated, except that the archived session is discarded
\* when the store already holds MAX_SESSIONS sessions and the archived one
\* is the last (oldest) of them; otherwise it is kept unchanged.
AddAfterArchiveStartsFreshWithinCap ==
    LET c == calls[1]
        evicted == /\ Len(c.pre.sessions) = MAX_SESSIONS
                   /\ c.pre.sessions[MAX_SESSIONS].id = c.after.mem
    IN  AddedAfterArchive
        => /\ StartedFreshSession
           /\ IF evicted THEN c.after.mem \notin SessionIds(store)
              ELSE ArchivedSessionKept

\* a tab was added after the only session, which has tabs, was saved
AddAfterArchiveWitness ==
    /\ AddedAfterArchive
    /\ calls[1].after.op = "manualSaveSession"
    /\ Len(calls[1].pre.sessions) = 1
    /\ Len(store.sessions) = 2
    /\ SessionOf(store, calls[1].after.mem).tabs # <<>>

\* C15: restoreSession(id) for a stored session that is not current and has
\* tabs returns the stored tabs, makes id the current session in storage and
\* in memory, and leaves the tabs and closedTabs of every session as stored.
RestoreKeepsTabs ==
    LET c == calls[1]
    IN  (/\ Returned("restoreSession")
         /\ c.sessionId \in SessionIds(c.pre)
         /\ c.sessionId # c.preMem
         /\ SessionOf(c.pre, c.sessionId).tabs # <<>>)
        => /\ c.error = ""
           /\ c.ret = c.sessionId
           /\ c.retTabs = SessionOf(c.pre, c.sessionId).tabs
           /\ store.currentSessionId = c.sessionId
           /\ currentSessionId = c.sessionId
           /\ Len(store.sessions) = Len(c.pre.sessions)
           /\ \A i \in 1..Len(c.pre.sessions) :
                 /\ store.sessions[i].id = c.pre.sessions[i].id
                 /\ store.sessions[i].tabs = c.pre.sessions[i].tabs
                 /\ store.sessions[i].closedTabs = c.pre.sessions[i].closedTabs

\* the saved session, which has two tabs, was restored while another session
\* was current
RestoreKeepsTabsWitness ==
    LET c == calls[1]
    IN  /\ Returned("restoreSession") /\ c.wrote
        /\ c.preMem \in SessionIds(c.pre) /\ c.preMem # c.sessionId
        /\ Len(c.retTabs) = 2
        /\ store.currentSessionId = c.sessionId

\* C16: switchToSession, restoreSession and getSessionForRestoration reject
\* with a not-found error when no stored session has the id and with an
\* already-active error when the id is the current session; the latter two
\* reject with an empty-session error when the session has no tabs.  A
\* rejected call writes nothing and leaves this.currentSessionId alone.
RejectionsAreClean ==
    LET c == calls[1]
        stored == c.sessionId \in SessionIds(c.pre)
    IN  (c.pc = "done" /\ c.op \in {"switchToSession", "restoreSession",
                                    "getSessionForRestoration"})
        => /\ ~stored => c.error = "Session not found"
           /\ (stored /\ c.sessionId = c.preMem)
                 => c.error = "Session is already active"
           /\ (/\ stored /\ c.sessionId # c.preMem
               /\ c.op # "switchToSession"
               /\ SessionOf(c.pre, c.sessionId).tabs = <<>>)
                 => c.error = "Session has no tabs to restore"
           /\ c.error # "" => /\ ~c.wrote
                              /\ store = c.pre
                              /\ currentSessionId = c.preMem

\* each of the three rejections has happened: here, restoreSession of a
\* stored session without tabs
RejectionsWitness ==
    LET c == calls[1]
    IN  /\ Returned("restoreSession")
        /\ c.error = "Session has no tabs to restore"
        /\ c.after.op = "getSessionForRestoration"
        /\ c.after.error = "Session is already active"

\* C17: getSessionForRestoration writes nothing, whether it succeeds or
\* fails: the store (every session, the persisted pointer) and
\* this.currentSessionId are as before the call.
ForRestorationIsReadOnly ==
    LET c == calls[1]
    IN  Returned("getSessionForRestoration")
        => /\ ~c.wrote
           /\ store = c.pre
           /\ currentSessionId = c.preMem

\* getSessionForRestoration succeeded for a session that is not current
ForRestorationWitness ==
    LET c == calls[1]
    IN  /\ Returned("getSessionForRestoration")
        /\ c.error = "" /\ c.ret = c.sessionId
        /\ c.retTabs # <<>>
        /\ currentSessionId # c.sessionId

\* C18: with this.currentSessionId non-null and no stored session of that id,
\* addTabToSession raises no error: it creates a session, makes it current
\* and records the tab in it.
DanglingAddStartsFresh ==
    LET c == calls[1]
    IN  (/\ Returned("addTabToSession")
         /\ c.preMem # Null
         /\ c.preMem \notin SessionIds(c.pre))
        => StartedFreshSession

\* C19: a call changes the status of a session only from undefined (active)
\* to "saved" or to "closed": a saved session stays saved, a closed session
\* stays closed.
StatusIsMonotonic ==
    LET c == calls[1]
    IN  c.pc = "done"
        => \A i \in 1..Len(c.pre.sessions), j \in 1..Len(store.sessions) :
              c.pre.sessions[i].id = store.sessions[j].id
                 => \/ store.sessions[j].status = c.pre.sessions[i].status
                    \/ /\ c.pre.sessions[i].status = UndefinedStr
                       /\ store.sessions[j].status \in {"saved", "closed"}

SessionIdsAreDistinct ==
    \A i, j \in 1..Len(store.sessions) :
        i # j => store.sessions[i].id # store.sessions[j].id

\* two sessions were created at the same clock value
SameClockWitness ==
    /\ Len(store.sessions) = 2
    /\ store.sessions[1].created = store.sessions[2].created
    /\ store.sessions[1].id[1] = store.sessions[2].id[1]
    /\ store.sessions[1].id # store.sessions[2].id

\* C23: sessionCreationPromise is set exactly while the creation behind it
\* runs, so nobody awaits a settled creation; an ensureActiveSession called
\* after one that failed (its creation was rejected) throws nothing: it
\* returns the id of a session it had created afresh.
CreationHandleIsCleared ==
    /\ sessionCreationPromise = "pending" <=> calls[CreationTask].pc # "idle"
    /\ Awaiters # {} => sessionCreationPromise = "pending"
    /\ \A p \in Slots :
          (/\ calls[p].pc = "done"
           /\ calls[p].op = "ensureActiveSession"
           /\ calls[p].after.op = "ensureActiveSession"
           /\ calls[p].after.error = "rejected")
          => /\ calls[p].error = ""
             /\ calls[p].ret \in SessionIds(store)
             /\ calls[p].ret \notin SessionIds(calls[p].pre)

\* two callers shared a creation that failed, and the caller after them got
\* a fresh session
CreationRetriedWitness ==
    \E p, q \in Slots :
        /\ p # q
        /\ calls[p].pc = "done" /\ calls[p].error = ""
        /\ calls[p].after.error = "rejected"
        /\ calls[p].ret \in SessionIds(store)
        /\ calls[q].pc = "done" /\ calls[q].error = "rejected"
        /\ sessionCreationPromise = "null"

\* C30: checkAndCloseSessionIfAllTabsClosed, called with
\* this.currentSessionId set while the host reports no private tab with a
\* non-system url, returns true with currentSessionId null in memory and in
\* storage and the session that was current marked "closed"; a call that
\* returns false changes nothing.
CheckClosesOrLeaves ==
    LET c == calls[1]
    IN  Returned("checkAndCloseSessionIfAllTabsClosed")
        => /\ c.error = ""
           /\ (ValidTabs(hostTabs) = <<>> /\ c.preMem # Null) => c.ret = JsTrue
           /\ c.ret = JsTrue
                 => /\ currentSessionId = Null
                    /\ store.currentSessionId = Null
                    /\ c.preMem \in SessionIds(store)
                    /\ SessionOf(store, c.preMem).status = "closed"
           /\ c.ret # JsTrue
                 => /\ c.ret = JsFalse
                    /\ ~c.wrote
                    /\ store = c.pre
                    /\ currentSessionId = c.preMem

----------------------------------------------------------------------------
(* The service worker.  It keeps its own currentSessionId,
   sessionCreationPromise and saveTimeouts (module variables) and does not
   use the class above.  It runs in the private context (isIncognito is
   true) and is initialized.  A listener in flight, and a timer of
   saveTabToCurrentSession, takes a slot of calls; the number of the slot is
   the timer's handle. *)

\* allTabs.filter(t => t.incognito === isIncognito)
ContextTabs(allTabs) == Filter(allTabs, LAMBDA tab : tab.incognito)

\* the context's tabs with a url that is not a system url
LiveTabs(allTabs) ==
    Filter(ContextTabs(allTabs), LAMBDA tab : ~isSystemUrl(tab.url))

\* createNewSession('auto'): the record it writes (settings.maxSessions is
\* MAX_SESSIONS)
WorkerCreateNewSessionStorage(storage, sessionId, timestamp, allTabs, t) ==
    LET newSession == [id |-> sessionId,
                       name |-> formatSessionName(timestamp),
                       created |-> timestamp,
                       modified |-> timestamp,
                       status |-> UndefinedStr,
                       closedAt |-> UndefinedNum,
                       tabs |-> MapTabEntry(LiveTabs(allTabs), t),
                       closedTabs |-> <<>>]
        unshifted == <<newSession>> \o storage.sessions
    IN  [sessions |-> IF Len(unshifted) > MAX_SESSIONS
                      THEN Slice0(unshifted, MAX_SESSIONS)
                      ELSE unshifted,
         currentSessionId |-> sessionId]

\* new URL(url).hostname (the urls of the model have no path)
Hostname(url) == url[2]

\* saveTabToCurrentSession: the favicon of the entry
FaviconUrl(tab) ==
    IF ~Falsy(Prop(tab, "favIconUrl", UndefinedStr)) THEN tab.favIconUrl
    ELSE IF Prop(tab, "url", UndefinedUrl) \in {UndefinedUrl, EmptyUrl} THEN ""
    ELSE "https://www.google.com/s2/favicons?domain=" \o Hostname(tab.url)
             \o "&sz=32"

\* saveTabToCurrentSession: the record the timer writes
SaveTabStorage(storage, idx, tab, t) ==
    LET session == storage.sessions[idx]
        tabEntry == [TabEntry(tab, t) EXCEPT !.favicon = FaviconUrl(tab)]
    IN  WithSession(storage, idx,
            [session EXCEPT !.tabs = AddTabToTabs(session.tabs, tabEntry),
                            !.modified = t])

\* restoreSession of the worker: the record it writes, the stored tabs
\* cleared
WorkerRestoreSessionStorage(storage, idx, sessionId, t) ==
    LET session == storage.sessions[idx]
    IN  [WithSession(storage, idx,
             [session EXCEPT
                 !.name = IF EndsWithClosed(session.name)
                          THEN ReplaceFirstClosed(session.name)
                          ELSE session.name,
                 !.modified = t,
                 !.tabs = <<>>])
         EXCEPT !.currentSessionId = sessionId]

\* the window ids of the model's tabs
WindowIds == {1, 2, 3}

\* incognitoTabs.sort by windowId, then by index (the host lists the tabs of
\* a window by index)
RECURSIVE SortByWindow(_, _)
SortByWindow(tabs, windowId) ==
    IF windowId \notin WindowIds THEN <<>>
    ELSE Filter(tabs, LAMBDA tab : tab.windowId = windowId)
             \o SortByWindow(tabs, windowId + 1)

\* restoreSession of the worker: the host's tabs once chrome.tabs.update
\* has pointed the first tabs of the context at the urls to restore
TabsAfterRestore(allTabs, tabsToRestore) ==
    LET incognitoTabs == SortByWindow(ContextTabs(allTabs), 1)
    IN  [i \in DOMAIN allTabs |->
            LET k == FindIndex(incognitoTabs,
                               LAMBDA tab : tab.id = allTabs[i].id)
            IN  IF k > 0 /\ k <= Len(tabsToRestore)
                THEN [allTabs[i] EXCEPT !.url = tabsToRestore[k].url]
                ELSE allTabs[i]]

\* settings.retentionDays, in ticks of the clock
RetentionDays == 1

\* the retention sweep: the record it writes
SweepStorage(storage, t) ==
    [storage EXCEPT !.sessions = Filter(storage.sessions,
                        LAMBDA s : s.modified > t - RetentionDays)]

\* the listener called in slot p, standing at its first await
Started(op, first, sessionId, tab) ==
    [IdleCall EXCEPT !.op = op, !.pc = first, !.sessionId = sessionId,
                     !.tabId = tab.id, !.tab = tab,
                     !.pre = IF observe THEN store ELSE EmptyStorage,
                     !.preMem = IF observe THEN currentSessionId ELSE Null,
                     !.after = prev]

\* the host delivers an event or a message to the listener in slot p
Deliver(p) ==
    /\ opsStarted < MaxOps
    /\ Quiet(calls[p])
    /\ opsStarted' = opsStarted + 1

\* the timer saveTimeouts holds for the tab id, if it has not fired yet:
\* clearTimeout removes it
Pending(tabId) ==
    {q \in Slots : q = saveTimeouts[tabId] /\ calls[q].pc = "tm_pending"}

\* saveTabToCurrentSession(tab), called by the listener in slot p, which
\* returns: the timer saveTimeouts holds for the tab id is cleared, and the
\* new timer takes slot p
ScheduleSave(p, tab) ==
    LET timer == [IdleCall EXCEPT !.op = "saveTabToCurrentSession",
                                  !.pc = "tm_pending",
                                  !.tabId = tab.id, !.tab = tab]
    IN  /\ saveTimeouts' = [saveTimeouts EXCEPT ![tab.id] = p]
        /\ Commit([q \in {p} \cup Pending(tab.id) |->
                     IF q = p THEN timer ELSE IdleCall])

\* chrome.tabs.onCreated: the host has opened the tab
onCreated(p, tab) ==
    LET c == Started("onCreated", "oc_query", Null, tab)
    IN  /\ Deliver(p)
        /\ \A i \in 1..Len(hostTabs) : hostTabs[i].id # tab.id
        /\ hostTabs' = Append(hostTabs, tab)
        /\ IF ~tab.incognito \/ isSystemUrl(tab.url)
           THEN /\ Commit(One(p, Return(c, Null, "")))
                /\ UNCHANGED saveTimeouts
           ELSE IF currentSessionId = Null
           THEN /\ Commit(One(p, c))
                /\ UNCHANGED saveTimeouts
           ELSE ScheduleSave(p, tab)
        /\ UNCHANGED <<store, currentSessionId, sessionCreationPromise,
                       sessionCounter, now, observe>>

\* the host has opened the tab and the worker got no event for it
tabOpenedUnnoticed(p, tab) ==
    /\ Deliver(p)
    /\ \A i \in 1..Len(hostTabs) : hostTabs[i].id # tab.id
    /\ hostTabs' = Append(hostTabs, tab)
    /\ Commit(One(p, Return(Started("none", "done", Null, tab), Null, "")))
    /\ UNCHANGED <<store, currentSessionId, sessionCreationPromise,
                   sessionCounter, now, observe, saveTimeouts>>

\* chrome.tabs.onUpdated with changeInfo.url: the tab has navigated
onUpdated(p, tab) ==
    LET c == Started("onUpdated", "done", Null, tab)
    IN  /\ Deliver(p)
        /\ \E i \in 1..Len(hostTabs) : hostTabs[i].id = tab.id
        /\ hostTabs' = [i \in DOMAIN hostTabs |->
                           IF hostTabs[i].id = tab.id THEN tab ELSE hostTabs[i]]
        /\ IF ~tab.incognito \/ isSystemUrl(tab.url)
           THEN /\ Commit(One(p, Return(c, Null, "")))
                /\ UNCHANGED saveTimeouts
           ELSE ScheduleSave(p, tab)
        /\ UNCHANGED <<store, currentSessionId, sessionCreationPromise,
                       sessionCounter, now, observe>>

\* chrome.tabs.onRemoved: the host has closed the tab
onRemoved(p, tabId) ==
    LET c == Started("onRemoved", "or_get", Null, [id |-> tabId])
    IN  /\ Deliver(p)
        /\ \E i \in 1..Len(hostTabs) : hostTabs[i].id = tabId
        /\ hostTabs' = Filter(hostTabs, LAMBDA tab : tab.id # tabId)
        /\ saveTimeouts' = [saveTimeouts EXCEPT ![tabId] = 0]
        /\ Commit([q \in {p} \cup Pending(tabId) |->
                     IF q = p THEN c ELSE IdleCall])
        /\ UNCHANGED <<store, currentSessionId, sessionCreationPromise,
                       sessionCounter, now, observe>>

\* a handler that touches neither the host's tabs nor saveTimeouts starts
Handle(p, op, first, sessionId) ==
    /\ Deliver(p)
    /\ Commit(One(p, Started(op, first, sessionId, NoTab)))
    /\ UNCHANGED <<store, currentSessionId, sessionCreationPromise,
                   sessionCounter, now, hostTabs, observe, saveTimeouts>>

\* the 'ping' message: pollForMissedTabs()
pollForMissedTabs(p) == Handle(p, "pollForMissedTabs", "pl_query", Null)

\* the 'getSessions' message
getSessions(p) == Handle(p, "getSessions", "gs_get", Null)

\* the 'restoreSession' message
restoreSessionMessage(p, sessionId) ==
    Handle(p, "restoreSession", "wr_get", sessionId)

\* the 'deleteSession' message
deleteSessionMessage(p, sessionId) ==
    Handle(p, "deleteSession", "wd_get", sessionId)

\* the 'importSessions' message: importSessions(importData)
importSessions(p, importData) ==
    /\ Deliver(p)
    /\ Commit(One(p, [Started("importSessions", "im_set", Null, NoTab)
                        EXCEPT !.storage = importData]))
    /\ UNCHANGED <<store, currentSessionId, sessionCreationPromise,
                   sessionCounter, now, hostTabs, observe, saveTimeouts>>

\* the clean-up interval fires
retentionSweep(p) == Handle(p, "retentionSweep", "sw_settings", Null)

\* onCreated, resumed with the tabs chrome.tabs.query reported
OnCreatedAfterQuery(p) ==
    LET c == calls[p]
    IN  /\ c.pc = "oc_query"
        /\ IF Len(ContextTabs(hostTabs)) <= 1
           THEN /\ Commit(One(p, [c EXCEPT !.pc = "w_get"]))
                /\ UNCHANGED saveTimeouts
           ELSE ScheduleSave(p, c.tab)
        /\ UNCHANGED <<store, currentSessionId, sessionCreationPromise,
                       sessionCounter, now, hostTabs, opsStarted, observe>>

\* pollForMissedTabs, resumed with the tabs chrome.tabs.query reported
PollAfterQuery(p) ==
    LET c == calls[p]
    IN  /\ c.pc = "pl_query"
        /\ Commit(One(p, IF LiveTabs(hostTabs) # <<>> /\ currentSessionId = Null
                         THEN [c EXCEPT !.pc = "w_get"]
                         ELSE Return(c, Null, "")))
        /\ UNCHANGED <<store, currentSessionId, sessionCreationPromise,
                       sessionCounter, now, hostTabs, opsStarted, observe,
                       saveTimeouts>>

\* createNewSession of the worker, resumed with the record it read
WorkerCreateAfterGet(p) ==
    LET c == calls[p]
    IN  /\ c.pc = "w_get"
        /\ Commit(One(p, [c EXCEPT !.pc = "w_query",
                                   !.storage = store,
                                   !.newId = <<now, 0>>,
                                   !.timestamp = now]))
        /\ UNCHANGED <<store, currentSessionId, sessionCreationPromise,
                       sessionCounter, now, hostTabs, opsStarted, observe,
                       saveTimeouts>>

\* createNewSession of the worker, resumed with the tabs chrome.tabs.query
\* reported (and then with the settings, which the model does not vary)
WorkerCreateAfterQuery(p) ==
    LET c == calls[p]
    IN  /\ c.pc = "w_query"
        /\ Commit(One(p, [c EXCEPT
                            !.pc = "w_set",
                            !.storage = WorkerCreateNewSessionStorage(
                                c.storage, c.newId, c.timestamp, hostTabs, now)]))
        /\ UNCHANGED <<store, currentSessionId, sessionCreationPromise,
                       sessionCounter, now, hostTabs, opsStarted, observe,
                       saveTimeouts>>

\* the timers whose callback awaits sessionCreationPromise
TimersAwaiting == {q \in Slots : calls[q].pc = "tm_await"}

\* createNewSession of the worker, resumed after the record was written: it
\* returns the id to its caller, onCreated or pollForMissedTabs, which
\* assigns it to currentSessionId; the callers that await
\* sessionCreationPromise assign nothing
WorkerCreateAfterSet(p) ==
    LET c == calls[p]
    IN  /\ c.pc = "w_set"
        /\ store' = c.storage
        /\ IF p = CreationTask
           THEN /\ sessionCreationPromise' = "null"
                /\ Commit([q \in TimersAwaiting \cup {p} |->
                             IF q = p THEN IdleCall
                             ELSE [calls[q] EXCEPT !.pc = "tm_get"]])
                /\ UNCHANGED <<currentSessionId, saveTimeouts>>
           ELSE IF c.op = "onCreated"
           THEN /\ currentSessionId' = c.newId
                /\ ScheduleSave(p, c.tab)
                /\ UNCHANGED sessionCreationPromise
           ELSE /\ currentSessionId' = c.newId
                /\ Commit(One(p, Return([c EXCEPT !.wrote = TRUE], Null, "")))
                /\ UNCHANGED <<sessionCreationPromise, saveTimeouts>>
        /\ UNCHANGED <<sessionCounter, now, hostTabs, opsStarted, observe>>

\* SAVE_DELAY has elapsed: the callback of the timer starts
TimerFires(p) ==
    LET c == calls[p]
        task == [IdleCall EXCEPT !.op = "createNewSession", !.pc = "w_get"]
    IN  /\ c.pc = "tm_pending"
        /\ IF currentSessionId # Null
           THEN /\ Commit(One(p, [c EXCEPT !.pc = "tm_get"]))
                /\ UNCHANGED sessionCreationPromise
           ELSE IF sessionCreationPromise = "null"
           THEN /\ sessionCreationPromise' = "pending"
                /\ Commit([q \in {p, CreationTask} |->
                             IF q = p THEN [c EXCEPT !.pc = "tm_await"] ELSE task])
           ELSE /\ Commit(One(p, [c EXCEPT !.pc = "tm_await"]))
                /\ UNCHANGED sessionCreationPromise
        /\ UNCHANGED <<store, currentSessionId, sessionCounter, now, hostTabs,
                       opsStarted, observe, saveTimeouts>>

\* the callback of the timer, resumed with the record it read; when it
\* returns, its finally block deletes the tab id from saveTimeouts
TimerAfterGet(p) ==
    LET c == calls[p]
        idx == FindSession(store, currentSessionId)
    IN  /\ c.pc = "tm_get"
        /\ IF idx = 0
           THEN /\ saveTimeouts' = [saveTimeouts EXCEPT ![c.tab.id] = 0]
                /\ Commit(One(p, Return(c, Null, "")))
           ELSE /\ Commit(One(p, [c EXCEPT
                                    !.pc = "tm_set",
                                    !.storage = SaveTabStorage(store, idx,
                                                               c.tab, now)]))
                /\ UNCHANGED saveTimeouts
        /\ UNCHANGED <<store, currentSessionId, sessionCreationPromise,
                       sessionCounter, now, hostTabs, opsStarted, observe>>

\* the callback of the timer, resumed after the record was written
TimerAfterSet(p) ==
    LET c == calls[p]
    IN  /\ c.pc = "tm_set"
        /\ store' = c.storage
        /\ saveTimeouts' = [saveTimeouts EXCEPT ![c.tab.id] = 0]
        /\ Commit(One(p, Return([c EXCEPT !.wrote = TRUE], Null, "")))
        /\ UNCHANGED <<currentSessionId, sessionCreationPromise,
                       sessionCounter, now, hostTabs, opsStarted, observe>>

\* onRemoved, resumed with the record it read
OnRemovedAfterGet(p) ==
    LET c == calls[p]
        idx == FindSession(store, currentSessionId)
        session == store.sessions[idx]
        tabIndex == TabIndexOf(session.tabs, c.tabId)
    IN  /\ c.pc = "or_get"
        /\ Commit(One(p,
              IF currentSessionId = Null \/ idx = 0 THEN Return(c, Null, "")
              ELSE IF tabIndex > 0
              THEN [c EXCEPT !.pc = "or_set",
                             !.storage = WithSession(store, idx,
                                 MoveTabInSession(session, tabIndex, c.tabId,
                                                  now))]
              ELSE [c EXCEPT !.pc = "or_query", !.storage = store]))
        /\ UNCHANGED <<store, currentSessionId, sessionCreationPromise,
                       sessionCounter, now, hostTabs, opsStarted, observe,
                       saveTimeouts>>

\* onRemoved, resumed with the tabs chrome.tabs.query reported
OnRemovedAfterQuery(p) ==
    LET c == calls[p]
    IN  /\ c.pc = "or_query"
        /\ IF ContextTabs(hostTabs) = <<>>
           THEN /\ currentSessionId' = Null
                /\ Commit(One(p, [c EXCEPT !.pc = "or_set2",
                                           !.storage.currentSessionId = Null]))
           ELSE /\ Commit(One(p, Return(c, Null, "")))
                /\ UNCHANGED currentSessionId
        /\ UNCHANGED <<store, sessionCreationPromise, sessionCounter, now,
                       hostTabs, opsStarted, observe, saveTimeouts>>

\* cleanupEmptySessions of 'getSessions', resumed with the record it read
GetSessionsAfterGet(p) ==
    LET c == calls[p]
        storage == CleanupEmptySessionsStorage(store)
    IN  /\ c.pc = "gs_get"
        /\ Commit(One(p, IF Len(storage.sessions) < Len(store.sessions)
                         THEN [c EXCEPT !.pc = "gs_set", !.storage = storage]
                         ELSE [c EXCEPT !.pc = "gs_read"]))
        /\ UNCHANGED <<store, currentSessionId, sessionCreationPromise,
                       sessionCounter, now, hostTabs, opsStarted, observe,
                       saveTimeouts>>

\* 'getSessions', resumed with the record to send: retTabs is the list
\* data.sessions of the response
GetSessionsAfterRead(p) ==
    LET c == calls[p]
    IN  /\ c.pc = "gs_read"
        /\ Commit(One(p, Return([c EXCEPT !.retTabs = store.sessions],
                                store.currentSessionId, "")))
        /\ UNCHANGED <<store, currentSessionId, sessionCreationPromise,
                       sessionCounter, now, hostTabs, opsStarted, observe,
                       saveTimeouts>>

\* restoreSession of the worker, resumed with the record it read: retTabs is
\* tabsToRestore
WorkerRestoreAfterGet(p) ==
    LET c == calls[p]
        idx == FindSession(store, c.sessionId)
    IN  /\ c.pc = "wr_get"
        /\ IF idx = 0
           THEN /\ Commit(One(p, Return(c, Null, "Session not found")))
                /\ UNCHANGED currentSessionId
           ELSE /\ currentSessionId' = c.sessionId
                /\ Commit(One(p, [c EXCEPT
                                    !.pc = "wr_set",
                                    !.retTabs = store.sessions[idx].tabs,
                                    !.storage = WorkerRestoreSessionStorage(
                                        store, idx, c.sessionId, now)]))
        /\ UNCHANGED <<store, sessionCreationPromise, sessionCounter, now,
                       hostTabs, opsStarted, observe, saveTimeouts>>

\* restoreSession of the worker, resumed with the tabs chrome.tabs.query
\* reported: it throws, or chrome.tabs.update navigates the tabs
WorkerRestoreAfterQuery(p) ==
    LET c == calls[p]
    IN  /\ c.pc = "wr_query"
        /\ IF Len(ContextTabs(hostTabs)) < Len(c.retTabs)
           THEN /\ Commit(One(p, Return([c EXCEPT !.retTabs = <<>>], Null,
                                        "Need more incognito tabs.")))
                /\ UNCHANGED hostTabs
           ELSE /\ hostTabs' = TabsAfterRestore(hostTabs, c.retTabs)
                /\ Commit(One(p, Return([c EXCEPT !.retTabs = <<>>], Null, "")))
        /\ UNCHANGED <<store, currentSessionId, sessionCreationPromise,
                       sessionCounter, now, opsStarted, observe, saveTimeouts>>

\* deleteSession of the worker, resumed with the record it read
WorkerDeleteAfterGet(p) ==
    LET c == calls[p]
    IN  /\ c.pc = "wd_get"
        /\ currentSessionId' = IF store.currentSessionId = c.sessionId THEN Null
                               ELSE currentSessionId
        /\ Commit(One(p, [c EXCEPT !.pc = "wd_set",
                                   !.storage = DeleteSessionStorage(
                                                   store, c.sessionId)]))
        /\ UNCHANGED <<store, sessionCreationPromise, sessionCounter, now,
                       hostTabs, opsStarted, observe, saveTimeouts>>

\* the retention sweep, resumed with the settings getSettings read
SweepAfterSettings(p, autoDelete) ==
    LET c == calls[p]
    IN  /\ c.pc = "sw_settings"
        /\ Commit(One(p, IF autoDelete THEN [c EXCEPT !.pc = "sw_get"]
                         ELSE Return(c, Null, "")))
        /\ UNCHANGED <<store, currentSessionId, sessionCreationPromise,
                       sessionCounter, now, hostTabs, opsStarted, observe,
                       saveTimeouts>>

\* the retention sweep, resumed with the record it read
SweepAfterGet(p) ==
    LET c == calls[p]
    IN  /\ c.pc = "sw_get"
        /\ Commit(One(p, [c EXCEPT !.pc = "sw_set",
                                   !.storage = SweepStorage(store, now)]))
        /\ UNCHANGED <<store, currentSessionId, sessionCreationPromise,
                       sessionCounter, now, hostTabs, opsStarted, observe,
                       saveTimeouts>>

\* where a handler of the worker stands once chrome.storage.local.set has
\* written its record
AfterSetPc ==
    [or_set |-> "or_query", or_set2 |-> "done", gs_set |-> "gs_read",
     wr_set |-> "wr_query", wd_set |-> "done", im_set |-> "done",
     sw_set |-> "done"]

\* a handler of the worker, resumed after chrome.storage.local.set wrote its
\* record
WorkerAfterSet(p) ==
    LET c == calls[p]
        wrote == [c EXCEPT !.wrote = TRUE]
    IN  /\ c.pc \in DOMAIN AfterSetPc
        /\ store' = c.storage
        /\ Commit(One(p, IF AfterSetPc[c.pc] = "done" THEN Return(wrote, Null, "")
                         ELSE [wrote EXCEPT !.pc = AfterSetPc[c.pc]]))
        /\ UNCHANGED <<currentSessionId, sessionCreationPromise, sessionCounter,
                       now, hostTabs, opsStarted, observe, saveTimeouts>>

----------------------------------------------------------------------------
(* The service worker from its start, its listeners overlapping *)

\* the worker once initialize() has run: the record exists and is empty
WorkerStarted ==
    /\ store = EmptyStorage
    /\ currentSessionId = Null
    /\ sessionCreationPromise = "null"
    /\ sessionCounter = 0
    /\ now = 1
    /\ hostTabs = <<>>
    /\ calls = [q \in {CreationTask} \cup Slots |-> IdleCall]
    /\ saveTimeouts = NoTimeouts
    /\ opsStarted = 0
    /\ prev = NoCall

InitWorker ==
    /\ WorkerStarted
    /\ observe = FALSE

NextWorker ==
    \/ \E p \in Slots, tab \in {TabA1, TabB2, TabSys3} : onCreated(p, tab)
    \/ \E p \in Slots, tab \in {TabB1, TabA2} : onUpdated(p, tab)
    \/ \E p \in Slots : pollForMissedTabs(p)
    \/ \E p \in Slots :
          \/ OnCreatedAfterQuery(p)
          \/ PollAfterQuery(p)
          \/ TimerFires(p)
          \/ TimerAfterGet(p)
          \/ TimerAfterSet(p)
    \/ \E p \in {CreationTask} \cup Slots :
          \/ WorkerCreateAfterGet(p)
          \/ WorkerCreateAfterQuery(p)
          \/ WorkerCreateAfterSet(p)
    \/ Tick

SpecWorker == InitWorker /\ [][NextWorker]_vars

----------------------------------------------------------------------------
(* The service worker from its start, each event handled (its save
   included) before the next *)

InitPoll ==
    /\ WorkerStarted
    /\ observe = TRUE

NextPoll ==
    \/ /\ AllQuiet
       /\ \/ \E tab \in {TabA1, TabB2, TabSys3} : onCreated(1, tab)
          \/ \E tab \in {TabA1, TabB2} : tabOpenedUnnoticed(1, tab)
          \/ pollForMissedTabs(1)
    \/ \E p \in {CreationTask, 1} :
          \/ OnCreatedAfterQuery(p)
          \/ PollAfterQuery(p)
          \/ TimerFires(p)
          \/ TimerAfterGet(p)
          \/ TimerAfterSet(p)
          \/ WorkerCreateAfterGet(p)
          \/ WorkerCreateAfterQuery(p)
          \/ WorkerCreateAfterSet(p)
    \/ Tick

SpecPoll == InitPoll /\ [][NextPoll]_vars

----------------------------------------------------------------------------
(* The service worker with two stored sessions, each message or event
   handled before the next *)

\* the ids createNewSession of the worker minted at times 1 and 2
OlderId == <<1, 0>>
NewerId == <<2, 0>>

\* the record once a session was created at time 1 over two tabs, and the
\* current one at time 2 over the tabs now open
StorageOfTwoSessions(allTabs) ==
    WorkerCreateNewSessionStorage(
        WorkerCreateNewSessionStorage(EmptyStorage, OlderId, 1,
                                      <<TabC3, TabD4>>, 1),
        NewerId, 2, allTabs, 2)

InitMessages ==
    /\ hostTabs \in {<<TabA1>>, <<TabA1, TabSys3>>, <<TabA1, TabB2>>}
    /\ store = StorageOfTwoSessions(hostTabs)
    /\ currentSessionId = NewerId
    /\ sessionCreationPromise = "null"
    /\ sessionCounter = 0
    /\ now = 2
    /\ calls = [q \in {CreationTask} \cup Slots |-> IdleCall]
    /\ saveTimeouts = NoTimeouts
    /\ opsStarted = 0
    /\ observe = TRUE
    /\ prev = NoCall

NextMessages ==
    \/ /\ AllQuiet
       /\ \/ \E tabId \in {1, 2, 3} : onRemoved(1, tabId)
          \/ getSessions(1)
          \/ \E sessionId \in SessionIdArgs : restoreSessionMessage(1, sessionId)
          \/ \E sessionId \in SessionIdArgs : deleteSessionMessage(1, sessionId)
          \/ importSessions(1, EmptyStorage)
          \/ retentionSweep(1)
          \/ pollForMissedTabs(1)
    \/ OnRemovedAfterGet(1)
    \/ OnRemovedAfterQuery(1)
    \/ GetSessionsAfterGet(1)
    \/ GetSessionsAfterRead(1)
    \/ WorkerRestoreAfterGet(1)
    \/ WorkerRestoreAfterQuery(1)
    \/ WorkerDeleteAfterGet(1)
    \/ \E autoDelete \in BOOLEAN : SweepAfterSettings(1, autoDelete)
    \/ SweepAfterGet(1)
    \/ WorkerAfterSet(1)
    \/ PollAfterQuery(1)
    \/ WorkerCreateAfterGet(1)
    \/ WorkerCreateAfterQuery(1)
    \/ WorkerCreateAfterSet(1)

SpecMessages == InitMessages /\ [][NextMessages]_vars

----------------------------------------------------------------------------
(* Properties of the service worker *)

\* the createNewSession runs in flight
Creating == {p \in DOMAIN calls : calls[p].pc \in {"w_get", "w_query", "w_set"}}

\* C24: started with no session, the worker creates at most one session
\* whatever the interleaving of tab-created events, debounced saves and poll
\* ticks: no two createNewSession run at once and the store never holds a
\* second session.
OneCreationForAllDiscoverers ==
    /\ Cardinality(Creating) <= 1
    /\ Len(store.sessions) <= 1

\* C25: handling a restoreSession message leaves the stored tabs of the
\* target session as they were, whether the restoration succeeds or throws
\* for want of private tabs.
RestoreMessageKeepsStoredTabs ==
    LET c == calls[1]
    IN  (Returned("restoreSession") /\ c.sessionId \in SessionIds(c.pre))
        => /\ c.sessionId \in SessionIds(store)
           /\ SessionOf(store, c.sessionId).tabs
                  = SessionOf(c.pre, c.sessionId).tabs

\* C26: a session leaves the store only through deleteSession for its id,
\* the truncation of createNewSession, the retention sweep or an import; a
\* getSessions message removes none and its response holds every stored
\* session, closedTabs included.
SessionsLeaveOnlyExplicitly ==
    LET c == calls[1]
    IN  c.pc = "done"
        => /\ \A i \in 1..Len(c.pre.sessions) :
                 c.pre.sessions[i].id \notin SessionIds(store)
                 => \/ c.op = "deleteSession" /\ c.sessionId = c.pre.sessions[i].id
                    \/ c.op \in {"importSessions", "retentionSweep"}
                    \/ /\ c.op = "pollForMissedTabs"
                       /\ i >= MAX_SESSIONS
           /\ c.op = "getSessions" => c.retTabs = c.pre.sessions

\* C27: once a getSessions clean-up or a retention sweep has run, a
\* currentSessionId that named a stored session, in memory or in the record,
\* still names one.
CleanupsKeepCurrentSession ==
    LET c == calls[1]
    IN  (c.pc = "done" /\ c.op \in {"getSessions", "retentionSweep"})
        => /\ c.preMem \in SessionIds(c.pre)
                 => currentSessionId = c.preMem /\ c.preMem \in SessionIds(store)
           /\ c.pre.currentSessionId \in SessionIds(c.pre)
                 => /\ store.currentSessionId = c.pre.currentSessionId
                    /\ c.pre.currentSessionId \in SessionIds(store)

\* C28: tab saves are debounced per tab id: a save request cancels the save
\* still pending for the same tab id, so no two timers wait to write the
\* same tab (each of them would write when its delay has elapsed).
SavesAreDebouncedPerTab ==
    \A p, q \in Slots :
        (/\ p # q
         /\ calls[p].pc = "tm_pending"
         /\ calls[q].pc = "tm_pending")
        => calls[p].tab.id # calls[q].tab.id

\* C29: once pollForMissedTabs has completed while the host reports a live
\* tab of the context with a non-system url, a session is active and each
\* such tab has an entry in its tabs.
PollReconciles ==
    (Returned("pollForMissedTabs") /\ LiveTabs(hostTabs) # <<>>)
    => /\ currentSessionId \in SessionIds(store)
       /\ \A i \in 1..Len(LiveTabs(hostTabs)) :
             \E j \in 1..Len(SessionOf(store, currentSessionId).tabs) :
                SessionOf(store, currentSessionId).tabs[j].tabId
                    = LiveTabs(hostTabs)[i].id

----------------------------------------------------------------------------
(* Invariants of the stored sessions *)

\* C31: in every state, whatever createNewSession, addTabToSession,
\* updateTabInSession and moveTabToClosedTabs calls were made (the host
\* reporting no two open tabs of one id), no session holds two tabs entries of
\* the same tabId.
OneEntryPerTabId ==
    \A i \in 1..Len(store.sessions) :
        \A j, k \in 1..Len(store.sessions[i].tabs) :
            j # k => store.sessions[i].tabs[j].tabId
                         # store.sessions[i].tabs[k].tabId

\* addTabToSession replaced the entry of its tab's id, which held another
\* url, in a session of two entries
AddSameTabIdWitness ==
    LET c == calls[1]
        old == CurrentTabs(c.pre, c.preMem)
    IN  /\ Returned("addTabToSession") /\ c.wrote
        /\ Len(old) = 2
        /\ Len(CurrentTabs(store, currentSessionId)) = 2
        /\ \E i \in 1..Len(old) :
              old[i].tabId = c.tab.id /\ old[i].url # c.tab.url

\* C32: in every state, whatever createNewSession, addTabToSession and
\* updateTabInSession calls were made, no session holds two tabs entries of
\* the same url.
OneEntryPerUrl ==
    \A i \in 1..Len(store.sessions) :
        \A j, k \in 1..Len(store.sessions[i].tabs) :
            j # k => store.sessions[i].tabs[j].url # store.sessions[i].tabs[k].url

\* C33: created of a session is set when the session is created and no later
\* call changes it, and created <= modified in every state (the clock never
\* goes backwards).
CreatedIsFixed ==
    LET c == calls[1]
    IN  /\ \A i \in 1..Len(store.sessions) :
              store.sessions[i].created <= store.sessions[i].modified
        /\ c.pc = "done"
              => \A i \in 1..Len(c.pre.sessions) :
                    c.pre.sessions[i].id \in SessionIds(store)
                    => SessionOf(store, c.pre.sessions[i].id).created
                           = c.pre.sessions[i].created

\* switchToSession made an older session current at a later time
SwitchedLaterWitness ==
    LET c == calls[1]
    IN  /\ Returned("switchToSession") /\ c.wrote
        /\ SessionOf(store, c.sessionId).created
               < SessionOf(store, c.sessionId).modified

\* what a call on the tabs of the current session left of the other sessions:
\* the same sessions in the same order, all but the current one as they were
OthersUntouched(c) ==
    /\ Len(store.sessions) = Len(c.pre.sessions)
    /\ \A i \in 1..Len(c.pre.sessions) :
          /\ store.sessions[i].id = c.pre.sessions[i].id
          /\ c.pre.sessions[i].id # c.preMem
                => store.sessions[i] = c.pre.sessions[i]

TabMethods == {"addTabToSession", "updateTabInSession", "moveTabToClosedTabs"}

\* C34 (as stated): addTabToSession, updateTabInSession and
\* moveTabToClosedTabs, run one at a time, leave the number and the order of
\* the sessions and every session but the current one unchanged.
TabMethodsChangeCurrentOnly ==
    LET c == calls[1]
    IN  (c.pc = "done" /\ c.op \in TabMethods) => OthersUntouched(c)

\* C34: addTabToSession called with a non-null currentSessionId,
\* updateTabInSession and moveTabToClosedTabs, run one at a time, leave the
\* number and the order of the sessions and every session but the current one
\* unchanged.
TabMethodsChangeCurrentOnlyWhenActive ==
    LET c == calls[1]
    IN  (/\ c.pc = "done" /\ c.op \in TabMethods
         /\ c.op = "addTabToSession" => c.preMem # Null)
        => OthersUntouched(c)

\* addTabToSession wrote the current one of two sessions at a later time than
\* the other was last modified
AddBesideOtherSessionWitness ==
    LET c == calls[1]
    IN  /\ Returned("addTabToSession") /\ c.wrote
        /\ c.preMem # Null
        /\ Len(store.sessions) = 2
        /\ SessionOf(store, c.preMem) # SessionOf(c.pre, c.preMem)
        /\ \E i \in 1..2 : store.sessions[i].modified < now

\* C35: after initialize over a stored record that is absent or has no
\* sessions list, a following ensureActiveSession or createNewSession
\* succeeds and leaves a well-formed record with exactly one session.
StartsOverBrokenStore ==
    LET c == calls[1]
    IN  (/\ c.pc = "done"
         /\ c.op \in {"ensureActiveSession", "createNewSession"}
         /\ c.after.op = "initialize"
         /\ c.pre = EmptyStorage \/ ~HasSessions(c.pre))
        => /\ c.error = ""
           /\ HasSessions(store)
           /\ Len(store.sessions) = 1

\* C36: restoreSession and switchToSession leave the status of every
\* session as it was; restoreSession changes only currentSessionId, the
\* modified of its session, and the name of its session when that name ends
\* with ' (Closed)'.
RestoreAndSwitchKeepStatus ==
    LET c == calls[1]
    IN  /\ (Returned("restoreSession") \/ Returned("switchToSession"))
           => /\ Len(store.sessions) = Len(c.pre.sessions)
              /\ \A i \in 1..Len(c.pre.sessions) :
                    /\ store.sessions[i].id = c.pre.sessions[i].id
                    /\ store.sessions[i].status = c.pre.sessions[i].status
        /\ Returned("restoreSession")
           => \A i \in 1..Len(c.pre.sessions) :
                 LET before == c.pre.sessions[i]
                     session == store.sessions[i]
                 IN  /\ before.id # c.sessionId => session = before
                     /\ [session EXCEPT !.modified = before.modified,
                                        !.name = before.name] = before
                     /\ session.name # before.name
                           => before.name[Len(before.name)] = ClosedSuffix

\* a session with status "saved" and a name that ends with ' (Closed)' was
\* restored: it lost the suffix and kept the status
RestoredSavedSessionWitness ==
    LET c == calls[1]
    IN  /\ Returned("restoreSession") /\ c.wrote
        /\ SessionOf(c.pre, c.sessionId).status = "saved"
        /\ SessionOf(c.pre, c.sessionId).name = <<ClosedSuffix>>
        /\ SessionOf(store, c.sessionId).status = "saved"
        /\ SessionOf(store, c.sessionId).name = <<>>
        /\ store.currentSessionId = c.sessionId

\* a session with status "closed" became current by switchToSession
SwitchedToClosedSessionWitness ==
    LET c == calls[1]
    IN  /\ Returned("switchToSession") /\ c.wrote
        /\ SessionOf(store, c.sessionId).status = "closed"
        /\ currentSessionId = c.sessionId

\* C37: whenever no call of the manager is in flight, the in-memory
\* currentSessionId equals the persisted currentSessionId.
PointersAgreeWhenQuiet ==
    AllQuiet => currentSessionId = store.currentSessionId

\* C38: a createNewSession that fails because the host rejected a call it
\* awaited leaves the in-memory currentSessionId as it was before the call,
\* and never naming a session that is not stored.
FailedCreateLeavesPointer ==
    LET c == calls[1]
    IN  (Returned("createNewSession") /\ c.error = "rejected")
        => /\ currentSessionId = c.preMem
           /\ currentSessionId # Null => currentSessionId \in SessionIds(store)

----------------------------------------------------------------------------
(* The service worker with a session active: tabs navigate and close while
   their saves are scheduled and running *)

\* the record once createNewSession of the worker has run over the open tabs
StorageOfOneSession(allTabs) ==
    WorkerCreateNewSessionStorage(EmptyStorage, OlderId, 1, allTabs, 1)

InitRemove ==
    /\ hostTabs \in {<<TabA1>>, <<TabA1, TabB2>>}
    /\ store = StorageOfOneSession(hostTabs)
    /\ currentSessionId = OlderId
    /\ sessionCreationPromise = "null"
    /\ sessionCounter = 0
    /\ now = 1
    /\ calls = [q \in {CreationTask} \cup Slots |-> IdleCall]
    /\ saveTimeouts = NoTimeouts
    /\ opsStarted = 0
    /\ observe = FALSE
    /\ prev = NoCall

NextRemove ==
    \/ \E p \in Slots, tab \in {TabA1, TabB1} : onUpdated(p, tab)
    \/ \E p \in Slots, tabId \in {1, 2} : onRemoved(p, tabId)
    \/ \E p \in Slots :
          \/ TimerFires(p)
          \/ TimerAfterGet(p)
          \/ TimerAfterSet(p)
          \/ OnRemovedAfterGet(p)
          \/ OnRemovedAfterQuery(p)
          \/ WorkerAfterSet(p)
    \/ \E p \in {CreationTask} :
          \/ WorkerCreateAfterGet(p)
          \/ WorkerCreateAfterQuery(p)
          \/ WorkerCreateAfterSet(p)
    \/ Tick

SpecRemove == InitRemove /\ [][NextRemove]_vars

----------------------------------------------------------------------------
(* Saves of a tab that was closed *)

\* the ids of the tabs the host has open
OpenTabIds == {hostTabs[i].id : i \in 1..Len(hostTabs)}

\* C39: once the host has closed tab T and onRemoved has cleared its timer,
\* no debounced save for T is still scheduled, whatever saves for T were
\* running when a newer one was scheduled.
NoSaveScheduledForClosedTab ==
    \A q \in Slots :
        calls[q].pc = "tm_pending" => calls[q].tab.id \in OpenTabIds

\* the closed tab is back among the tabs of the current session, and in its
\* closedTabs, with every handler and timer done
ClosedTabWrittenBack ==
    /\ AllQuiet
    /\ 1 \notin OpenTabIds
    /\ currentSessionId \in SessionIds(store)
    /\ \E i \in 1..Len(SessionOf(store, currentSessionId).tabs) :
          SessionOf(store, currentSessionId).tabs[i].tabId = 1
    /\ \E i \in 1..Len(SessionOf(store, currentSessionId).closedTabs) :
          SessionOf(store, currentSessionId).closedTabs[i].tabId = 1

====
